---- MODULE Spec2Model ----
(***************************************************************************)
(* GEMi ARM64/ARMv9 instruction explorer (src/ARMv9.py): the text-to-      *)
(* encoding converter ARM64InstructionIO (Spec), the register emulator     *)
(* Emulator (EmuSpec), and the field-space tool: the catalog, the codec    *)
(* functions assemble_value, get_binary_pattern and colorize_bits, the     *)
(* enumerator iterate_field_space, and the describe and explore commands   *)
(* of main with their alias handling (ToolSpec).                           *)
(*                                                                         *)
(* Representation.  A Python int used as a bit pattern is the set of its   *)
(* set bit positions (0x21 is {0, 5}); this is exact for the unbounded,    *)
(* non-negative ints the converter builds, and makes |, & and << set       *)
(* operations.  A Python str is a sequence of one-character strings, so    *)
(* that upper(), strip(), replace(), re.match, int() and the format        *)
(* specifications are computed character by character.                     *)
(***************************************************************************)
EXTENDS Integers, Sequences, FiniteSets, TLC

VARIABLES
    command,   \* the call made last: "none", "asm", "hex", "roundtrip", "parse"
    typed,     \* what the user means by the text of an "asm" or "parse" call
    input,     \* the text handed to that call
    result,    \* the dict the call returned
    origin,    \* for "roundtrip": the dict hex_to_asm returned, whose 'asm' was re-encoded
    emu,       \* an Emulator object: its regs and flags dicts
    call,      \* the last call on the emulator or on a function of the codec, with its arguments
    ret,       \* what that call returned: an encoding [val |-> v], a text [value |-> v],
               \* the maps a generator yielded, or a record of what was printed
    explore    \* the frame of main() / explore_opcode: arguments, loop position, printed lines

vars == <<command, typed, input, result, origin, emu, call, ret, explore>>

----------------------------------------------------------------------------
(* Bit patterns *)

Bits(n) == {i \in 0..30 : (n \div (2^i)) % 2 = 1}

RECURSIVE Val(_)
Val(w) == IF w = {} THEN 0
          ELSE LET i == CHOOSE j \in w : TRUE IN 2^i + Val(w \ {i})

Shl(w, k) == {i + k : i \in w}
Shr(w, k) == {i - k : i \in {j \in w : j >= k}}

\* A 32-bit program constant written as its two 16-bit halves.
W32(hi, lo) == Shl(Bits(hi), 16) \cup Bits(lo)

MaxBit(w) == CHOOSE i \in w : \A j \in w : j <= i

\* (value >> start) & ((1 << width) - 1)
Field(w, start, width) == Val(Shr(w, start) \cap (0..(width - 1)))

----------------------------------------------------------------------------
(* Strings *)

LowerAlpha == <<"a","b","c","d","e","f","g","h","i","j","k","l","m",
                "n","o","p","q","r","s","t","u","v","w","x","y","z">>
UpperAlpha == <<"A","B","C","D","E","F","G","H","I","J","K","L","M",
                "N","O","P","Q","R","S","T","U","V","W","X","Y","Z">>
DecDigits  == <<"0","1","2","3","4","5","6","7","8","9">>
HexUpper   == DecDigits \o <<"A","B","C","D","E","F">>
HexLower   == DecDigits \o <<"a","b","c","d","e","f">>

Range(s) == {s[i] : i \in DOMAIN s}
IndexOf(s, c) == CHOOSE i \in DOMAIN s : s[i] = c
DecDigitSet == Range(DecDigits)
HexUpperSet == Range(HexUpper)
HexDigitSet == Range(HexUpper) \cup Range(HexLower)

WhiteSpace == {" ", "\t"}
IsSpace(c) == c \in WhiteSpace
IsDigit(c) == c \in DecDigitSet
IsHexUpper(c) == c \in HexUpperSet
DigitVal(c) == IndexOf(DecDigits, c) - 1
HexVal(c) == IF c \in HexUpperSet THEN IndexOf(HexUpper, c) - 1
             ELSE IndexOf(HexLower, c) - 1

\* str.upper() and str.lower()
UpperChar(c) == IF c \in Range(LowerAlpha) THEN UpperAlpha[IndexOf(LowerAlpha, c)] ELSE c
LowerChar(c) == IF c \in Range(UpperAlpha) THEN LowerAlpha[IndexOf(UpperAlpha, c)] ELSE c
Upper(s) == [i \in DOMAIN s |-> UpperChar(s[i])]
Lower(s) == [i \in DOMAIN s |-> LowerChar(s[i])]

\* str.strip()
RECURSIVE LStrip(_)
LStrip(s) == IF s # <<>> /\ IsSpace(Head(s)) THEN LStrip(Tail(s)) ELSE s
RECURSIVE RStrip(_)
RStrip(s) == IF s # <<>> /\ IsSpace(s[Len(s)]) THEN RStrip(SubSeq(s, 1, Len(s) - 1)) ELSE s
Strip(s) == RStrip(LStrip(s))

StartsWith(s, p) == Len(s) >= Len(p) /\ SubSeq(s, 1, Len(p)) = p

\* str.replace(old, ''): every non-overlapping occurrence, left to right
RECURSIVE Remove(_, _)
Remove(s, old) ==
    IF s = <<>> THEN <<>>
    ELSE IF StartsWith(s, old) THEN Remove(SubSeq(s, Len(old) + 1, Len(s)), old)
    ELSE <<Head(s)>> \o Remove(Tail(s), old)

\* str(n) for n >= 0
RECURSIVE DecStr(_)
DecStr(n) == IF n < 10 THEN <<DecDigits[n + 1]>>
             ELSE DecStr(n \div 10) \o <<DecDigits[(n % 10) + 1]>>

\* format(n, 'x') for a small n >= 0
RECURSIVE HexStr(_)
HexStr(n) == IF n < 16 THEN <<HexLower[n + 1]>>
             ELSE HexStr(n \div 16) \o <<HexLower[(n % 16) + 1]>>

\* f"{w:08X}": upper-case hex, zero-padded to at least eight digits
NDigits(w) == IF w = {} \/ MaxBit(w) < 32 THEN 8 ELSE (MaxBit(w) \div 4) + 1
FormatHex08(w) ==
    [k \in 1..NDigits(w) |-> HexUpper[Field(w, 4 * (NDigits(w) - k), 4) + 1]]

\* int(s, 16): defined on a non-empty string of hex digits of either case,
\* a ValueError on the other strings drawn here
IsHexString(s) == s # <<>> /\ \A i \in DOMAIN s : s[i] \in HexDigitSet
ParseHex16(s) == UNION {Shl(Bits(HexVal(s[i])), 4 * (Len(s) - i)) : i \in DOMAIN s}

\* int(s, 0) on the strings the converter's patterns capture: "0x" and hex
\* digits, or decimal digits; a decimal literal with a leading zero is a
\* ValueError unless it is all zeros.  ValueError is returned as -1 (the
\* patterns capture no sign, so every parsed value is >= 0).
RECURSIVE DecVal(_)
DecVal(s) == IF s = <<>> THEN 0 ELSE 10 * DecVal(SubSeq(s, 1, Len(s) - 1)) + DigitVal(s[Len(s)])
PyInt0(s) ==
    IF StartsWith(Lower(s), <<"0", "x">>) /\ Len(s) > 2
    THEN Val(ParseHex16(SubSeq(s, 3, Len(s))))
    ELSE IF Len(s) > 1 /\ s[1] = "0" /\ \E i \in DOMAIN s : s[i] # "0"
    THEN -1
    ELSE DecVal(s)

----------------------------------------------------------------------------
(* re.match on the upper-cased text: anchored at the start, not at the end. *)
(* Each matcher returns the index after its match, or 0 when it fails.  The *)
(* greedy quantifiers of these patterns never need to give characters back: *)
(* what follows \s+, \s* or \d+ in them never starts with a character the   *)
(* quantifier accepts.                                                      *)

At(s, i) == IF i >= 1 /\ i <= Len(s) THEN s[i] ELSE ""
LitAt(s, i, lit) == i + Len(lit) - 1 <= Len(s) /\ SubSeq(s, i, i + Len(lit) - 1) = lit

\* the first index >= i holding a character outside S (Len(s) + 1 if none)
SkipIn(s, i, S) ==
    IF \E j \in i..Len(s) : s[j] \notin S
    THEN CHOOSE j \in i..Len(s) : s[j] \notin S /\ \A k \in i..(j - 1) : s[k] \in S
    ELSE Len(s) + 1

\* ([WX]\d+|name|...): a numbered register, else the first listed name
MatchReg(s, i, names) ==
    IF At(s, i) \in {"W", "X"} /\ IsDigit(At(s, i + 1))
    THEN SkipIn(s, i + 1, DecDigitSet)
    ELSE IF \E k \in DOMAIN names : LitAt(s, i, names[k])
    THEN i + Len(names[CHOOSE k \in DOMAIN names :
                    LitAt(s, i, names[k]) /\ \A l \in 1..(k - 1) : ~LitAt(s, i, names[l])])
    ELSE 0

\* (0x[0-9A-F]+|\d+)
MatchNumber(s, i) ==
    IF LitAt(s, i, <<"0", "x">>) /\ IsHexUpper(At(s, i + 2))
    THEN SkipIn(s, i + 2, HexUpperSet)
    ELSE IF IsDigit(At(s, i))
    THEN SkipIn(s, i, DecDigitSet)
    ELSE 0

NoMatch == [ok |-> FALSE]

\* MNEM\s+  : the index after the mnemonic and its white space, or 0
MatchMnemonic(s, mnem) ==
    IF LitAt(s, 1, mnem) /\ IsSpace(At(s, Len(mnem) + 1))
    THEN SkipIn(s, Len(mnem) + 1, WhiteSpace)
    ELSE 0

\* ,\s*#?(0x[0-9A-F]+|\d+) from index e: <<start, end>> of the group, or <<0, 0>>
MatchImmOperand(s, e) ==
    IF At(s, e) # "," THEN <<0, 0>>
    ELSE LET i == SkipIn(s, e + 1, WhiteSpace)
             j == IF At(s, i) = "#" THEN i + 1 ELSE i
             n == MatchNumber(s, j)
         IN  IF n = 0 THEN <<0, 0>> ELSE <<j, n>>

T_ADD == <<"A", "D", "D">>
T_SUB == <<"S", "U", "B">>
T_MOV == <<"M", "O", "V">>
T_NOP == <<"N", "O", "P">>
T_SP  == <<"S", "P">>
T_XZR == <<"X", "Z", "R">>
T_WZR == <<"W", "Z", "R">>

\* r'ADD\s+([WX]\d+|SP),\s*([WX]\d+|SP),\s*#?(0x[0-9A-F]+|\d+)' (and SUB)
re_add_sub(mnem, s) ==
    LET i1 == MatchMnemonic(s, mnem)
        e1 == IF i1 = 0 THEN 0 ELSE MatchReg(s, i1, <<T_SP>>)
        i2 == IF e1 = 0 \/ At(s, e1) # "," THEN 0 ELSE SkipIn(s, e1 + 1, WhiteSpace)
        e2 == IF i2 = 0 THEN 0 ELSE MatchReg(s, i2, <<T_SP>>)
        im == IF e2 = 0 THEN <<0, 0>> ELSE MatchImmOperand(s, e2)
    IN  IF im[2] = 0 THEN NoMatch
        ELSE [ok |-> TRUE,
              groups |-> <<SubSeq(s, i1, e1 - 1), SubSeq(s, i2, e2 - 1),
                           SubSeq(s, im[1], im[2] - 1)>>]

\* r'MOV\s+([WX])(\d+),\s*#?(0x[0-9A-F]+|\d+)'
re_mov_imm(s) ==
    LET i1 == MatchMnemonic(s, T_MOV)
        e1 == IF i1 # 0 /\ At(s, i1) \in {"W", "X"} /\ IsDigit(At(s, i1 + 1))
              THEN SkipIn(s, i1 + 1, Range(DecDigits)) ELSE 0
        im == IF e1 = 0 THEN <<0, 0>> ELSE MatchImmOperand(s, e1)
    IN  IF im[2] = 0 THEN NoMatch
        ELSE [ok |-> TRUE,
              groups |-> <<SubSeq(s, i1, i1), SubSeq(s, i1 + 1, e1 - 1),
                           SubSeq(s, im[1], im[2] - 1)>>]

\* r'MOV\s+([WX]\d+|SP),\s*([WX]\d+|XZR|WZR|SP)'
re_mov_reg(s) ==
    LET i1 == MatchMnemonic(s, T_MOV)
        e1 == IF i1 = 0 THEN 0 ELSE MatchReg(s, i1, <<T_SP>>)
        i2 == IF e1 = 0 \/ At(s, e1) # "," THEN 0 ELSE SkipIn(s, e1 + 1, WhiteSpace)
        e2 == IF i2 = 0 THEN 0 ELSE MatchReg(s, i2, <<T_XZR, T_WZR, T_SP>>)
    IN  IF e2 = 0 THEN NoMatch
        ELSE [ok |-> TRUE, groups |-> <<SubSeq(s, i1, e1 - 1), SubSeq(s, i2, e2 - 1)>>]

----------------------------------------------------------------------------
(* Descriptors (ISA_GROUPS) and assemble_value.  A dict is the sequence of  *)
(* its <<key, value>> pairs in insertion order.                             *)

Has(d, k) == \E i \in DOMAIN d : d[i][1] = k
Get(d, k) == d[CHOOSE i \in DOMAIN d : d[i][1] = k][2]

D_ORR ==
    [name |-> "ORR", base |-> W32(\h2A00, \h0000), mask |-> W32(\h7FE0, \h0000),
     fields |-> << <<"Rd", <<0, 5>> >>, <<"Rn", <<5, 5>> >>, <<"Rm", <<16, 5>> >>,
                   <<"imm6", <<10, 6>> >>, <<"shift", <<22, 2>> >>, <<"sf", <<31, 1>> >> >>]
D_ADDI ==
    [name |-> "ADDI", base |-> W32(\h1100, \h0000), mask |-> W32(\h7F80, \h0000),
     fields |-> << <<"Rd", <<0, 5>> >>, <<"Rn", <<5, 5>> >>, <<"imm12", <<10, 12>> >>,
                   <<"shift", <<22, 1>> >>, <<"sf", <<31, 1>> >> >>]
D_SUBI ==
    [name |-> "SUBI", base |-> W32(\h5100, \h0000), mask |-> W32(\h7F80, \h0000),
     fields |-> << <<"Rd", <<0, 5>> >>, <<"Rn", <<5, 5>> >>, <<"imm12", <<10, 12>> >>,
                   <<"shift", <<22, 1>> >>, <<"sf", <<31, 1>> >> >>]
D_MOVZ ==
    [name |-> "MOVZ", base |-> W32(\h5280, \h0000), mask |-> W32(\h7F80, \h0000),
     fields |-> << <<"Rd", <<0, 5>> >>, <<"imm16", <<5, 16>> >>, <<"hw", <<21, 2>> >>,
                   <<"sf", <<31, 1>> >> >>]
D_NOP ==
    [name |-> "NOP", base |-> W32(\hD503, \h201F), mask |-> W32(\hFFFF, \hFFFF),
     fields |-> << >>]

\* a write that does not clear the window first
WriteField_no_clear(val, start, width, value) ==
    val \cup Shl(Bits(value % (2^width)), start)

\* a write that clears one bit above the window
WriteField_wide(val, start, width, value) ==
    (val \ (start..(start + width))) \cup Shl(Bits(value % (2^width)), start)

\* val &= ~(mask << start); val |= (value & mask) << start
WriteField(val, start, width, value) ==
    (val \ (start..(start + width - 1))) \cup Shl(Bits(value % (2^width)), start)

\* the first loop of assemble_value: the varied values, in the map's order
RECURSIVE ApplyCombo(_, _, _)
ApplyCombo(val, fields, combo_map) ==
    IF combo_map = <<>> THEN val
    ELSE LET fname == Head(combo_map)[1]
             value == Head(combo_map)[2]
         IN  ApplyCombo(IF Has(fields, fname)
                        THEN WriteField(val, Get(fields, fname)[1], Get(fields, fname)[2], value)
                        ELSE val,
                        fields, Tail(combo_map))

\* the second loop: the locks of the fields that are not varied, in field order
RECURSIVE ApplyLocks(_, _, _, _)
ApplyLocks(val, rest, combo_map, locks) ==
    IF rest = <<>> THEN val
    ELSE LET fname == Head(rest)[1]
             start == Head(rest)[2][1]
             width == Head(rest)[2][2]
         IN  ApplyLocks(IF ~Has(combo_map, fname) /\ Has(locks, fname)
                        THEN WriteField(val, start, width, Get(locks, fname))
                        ELSE val,
                        Tail(rest), combo_map, locks)

assemble_value(spec, combo_map, locks) ==
    ApplyLocks(ApplyCombo(spec.base, spec.fields, combo_map), spec.fields, combo_map, locks)

\* the fields for which the second loop prints "Warning: Lock for field ...
\* exceeds width. Clamping."
assemble_value_warns(spec, combo_map, locks) ==
    {spec.fields[k][1] : k \in {i \in DOMAIN spec.fields :
                                   /\ ~Has(combo_map, spec.fields[i][1])
                                   /\ Has(locks, spec.fields[i][1])
                                   /\ Get(locks, spec.fields[i][1]) >= 2 ^ spec.fields[i][2][2]}}

\* the value of field fname of descriptor spec in the word w
FieldOf(spec, fname, w) == Field(w, Get(spec.fields, fname)[1], Get(spec.fields, fname)[2])

----------------------------------------------------------------------------
(* The decoder (capstone's Cs.disasm, an external collaborator), on the      *)
(* encoding classes the converter emits: the hint NOP, add/subtract          *)
(* immediate without flags, MOVZ with hw = 0 and the logical shifted         *)
(* register ORR/ORN with an LSL shift.  The words handed to it are drawn     *)
(* from these classes.  It prints lower-case mnemonics, an immediate above 9 *)
(* in hexadecimal, register 31 as sp/wsp or xzr/wzr as the class reads it,   *)
(* and the preferred aliases mov and mvn.  A 32-bit logical instruction with *)
(* a shift amount of 32 or more is a reserved encoding: no instruction.      *)

Bit(w, i) == IF i \in w THEN 1 ELSE 0

RegName(sf, n, sp) ==
    IF n = 31
    THEN IF sp THEN (IF sf = 1 THEN <<"s", "p">> ELSE <<"w", "s", "p">>)
         ELSE (IF sf = 1 THEN <<"x", "z", "r">> ELSE <<"w", "z", "r">>)
    ELSE <<IF sf = 1 THEN "x" ELSE "w">> \o DecStr(n)

PrintImm(v) == <<"#">> \o (IF v > 9 THEN <<"0", "x">> \o HexStr(v) ELSE DecStr(v))

Comma == <<",", " ">>
LslText(n) == <<",", " ", "l", "s", "l", " ", "#">> \o DecStr(n)

NoInsn == [ok |-> FALSE]
Insn(m, o) == [ok |-> TRUE, mnemonic |-> m, op_str |-> o]

IsNopWord(w)    == w = D_NOP.base
IsAddSubImm(w)  == Field(w, 23, 6) = 34 /\ 29 \notin w
IsMovzHw0(w)    == Field(w, 23, 8) = 165 /\ Field(w, 21, 2) = 0
IsOrrLsl(w)     == Field(w, 24, 5) = 10 /\ Field(w, 29, 2) = 1 /\ Field(w, 22, 2) = 0
DecoderClass(w) == IsNopWord(w) \/ IsAddSubImm(w) \/ IsMovzHw0(w) \/ IsOrrLsl(w)

DisasmAddSubImm(w) ==
    LET sf == Bit(w, 31)
        rd == Field(w, 0, 5)
        rn == Field(w, 5, 5)
        imm12 == Field(w, 10, 12)
        regs == RegName(sf, rd, TRUE) \o Comma \o RegName(sf, rn, TRUE)
    IN  IF 30 \notin w /\ 22 \notin w /\ imm12 = 0 /\ (rd = 31 \/ rn = 31)
        THEN Insn(<<"m", "o", "v">>, regs)
        ELSE Insn(IF 30 \in w THEN <<"s", "u", "b">> ELSE <<"a", "d", "d">>,
                  regs \o Comma \o PrintImm(imm12)
                       \o (IF 22 \in w THEN LslText(12) ELSE <<>>))

DisasmMovz(w) ==
    Insn(<<"m", "o", "v">>,
         RegName(Bit(w, 31), Field(w, 0, 5), FALSE) \o Comma \o PrintImm(Field(w, 5, 16)))

DisasmOrr(w) ==
    LET sf == Bit(w, 31)
        rd == RegName(sf, Field(w, 0, 5), FALSE)
        rn == RegName(sf, Field(w, 5, 5), FALSE)
        rm == RegName(sf, Field(w, 16, 5), FALSE)
        imm6 == Field(w, 10, 6)
        sh == IF imm6 = 0 THEN <<>> ELSE LslText(imm6)
    IN  IF sf = 0 /\ imm6 >= 32 THEN NoInsn
        ELSE IF Field(w, 5, 5) = 31
        THEN IF 21 \in w THEN Insn(<<"m", "v", "n">>, rd \o Comma \o rm \o sh)
             ELSE IF imm6 = 0 THEN Insn(<<"m", "o", "v">>, rd \o Comma \o rm)
             ELSE Insn(<<"o", "r", "r">>, rd \o Comma \o rn \o Comma \o rm \o sh)
        ELSE Insn(IF 21 \in w THEN <<"o", "r", "n">> ELSE <<"o", "r", "r">>,
                  rd \o Comma \o rn \o Comma \o rm \o sh)

Disasm(w) ==
    IF IsNopWord(w) THEN Insn(<<"n", "o", "p">>, <<>>)
    ELSE IF IsAddSubImm(w) THEN DisasmAddSubImm(w)
    ELSE IF IsMovzHw0(w) THEN DisasmMovz(w)
    ELSE IF IsOrrLsl(w) THEN DisasmOrr(w)
    ELSE NoInsn

----------------------------------------------------------------------------
(* ARM64InstructionIO.  A returned dict is a record; an error message is    *)
(* kept as the fixed part of its text.  A function that raises returns      *)
(* [raised |-> <exception>] in place of its value.                          *)

Err(msg) == [error |-> msg]
Raised(r) == "raised" \in DOMAIN r
IsError(r) == "error" \in DOMAIN r
HasHex(r) == "hex" \in DOMAIN r

\* int.to_bytes(4, 'little').hex().upper() of a word below 2^32, from its
\* eight big-endian hex digits
SwapBytes(be) == <<be[7], be[8], be[5], be[6], be[3], be[4], be[1], be[2]>>
BytesLE(w) == SwapBytes(FormatHex08(w))

hex_to_asm(hex_str) ==
    LET h == Remove(Remove(Strip(hex_str), <<" ">>), <<"0", "x">>)
    IN  IF Len(h) # 8 THEN Err("Hex string must be 8 characters")
        ELSE IF ~IsHexString(h) THEN Err("Invalid hex string")
        ELSE LET value == ParseHex16(h)
                 insn == Disasm(value)
             IN  IF insn.ok
                 THEN [hex |-> <<"0", "x">> \o FormatHex08(value),
                       asm |-> insn.mnemonic \o <<" ">> \o insn.op_str,
                       bytes_le |-> BytesLE(value),
                       bytes_be |-> Upper(h)]
                 ELSE Err("Unknown or invalid instruction encoding")

\* the body of _format_result once hex_to_asm has returned disasm_result
format_result_of(asm_text, encoding, disasm_result) ==
    LET canonical_asm == IF "asm" \in DOMAIN disasm_result THEN disasm_result.asm ELSE asm_text
        asm_to_show == IF IsError(disasm_result)
                       THEN <<"<Encoding Error: ", disasm_result.error, ">">>
                       ELSE canonical_asm
    IN  IF encoding \subseteq 0..31
        THEN [asm |-> asm_to_show,
              hex |-> <<"0", "x">> \o FormatHex08(encoding),
              bytes_le |-> BytesLE(encoding),
              bytes_be |-> FormatHex08(encoding)]
        ELSE [raised |-> "OverflowError"]

format_result(asm_text, encoding) ==
    format_result_of(asm_text, encoding, hex_to_asm(FormatHex08(encoding)))

\* int(s) of reg_str[1:]
IsDecString(s) == s # <<>> /\ \A i \in DOMAIN s : IsDigit(s[i])

\* _parse_register without the upper-casing of its first line
parse_register_case_sensitive(reg_str) ==
    LET r == reg_str
    IN  IF r = T_SP THEN [sf |-> 1, idx |-> 31]
        ELSE IF r \in {T_XZR, T_WZR} THEN [sf |-> 1, idx |-> 31]
        ELSE IF r # <<>> /\ r[1] \in {"X", "W"}
        THEN IF IsDecString(Tail(r))
             THEN [sf |-> IF r[1] = "X" THEN 1 ELSE 0, idx |-> DecVal(Tail(r))]
             ELSE [raised |-> "ValueError"]
        ELSE [raised |-> "ValueError"]

parse_register(reg_str) ==
    LET r == Upper(reg_str)
    IN  IF r = T_SP THEN [sf |-> 1, idx |-> 31]
        ELSE IF r \in {T_XZR, T_WZR} THEN [sf |-> 1, idx |-> 31]
        ELSE IF r # <<>> /\ r[1] \in {"X", "W"}
        THEN IF IsDecString(Tail(r))
             THEN [sf |-> IF r[1] = "X" THEN 1 ELSE 0, idx |-> DecVal(Tail(r))]
             ELSE [raised |-> "ValueError"]
        ELSE [raised |-> "ValueError"]

base_add(sf) == IF sf = 1 THEN W32(\h9100, \h0000) ELSE W32(\h1100, \h0000)
base_sub(sf) == IF sf = 1 THEN W32(\hD100, \h0000) ELSE W32(\h5100, \h0000)

encode_add_sub_imm(asm_text, op, groups) ==
    LET rd_str == groups[1]
        rn_str == groups[2]
        imm_str == groups[3]
        d == parse_register(rd_str)
        n == parse_register(rn_str)
    IN  IF Raised(d) \/ Raised(n) THEN Err("Invalid register")
        ELSE IF rd_str # T_SP /\ rn_str # T_SP /\ d.sf # n.sf
        THEN Err("Register size mismatch in " \o op)
        ELSE IF (rd_str = T_SP \/ rn_str = T_SP) /\ d.sf = 0
        THEN Err(op \o " with SP requires 64-bit destination")
        ELSE LET sf == IF rd_str[1] = "X" \/ rd_str = T_SP THEN 1 ELSE 0
                 imm_val == PyInt0(imm_str)
             IN  IF imm_val < 0 THEN [raised |-> "ValueError"]
                 ELSE IF imm_val <= 4095 \/ (imm_val <= 4095 * 4096 /\ imm_val % 4096 = 0)
                 THEN LET shift == IF imm_val <= 4095 THEN 0 ELSE 1
                          imm12 == IF imm_val <= 4095 THEN imm_val ELSE imm_val \div 4096
                          base == IF op = "ADD" THEN base_add(sf) ELSE base_sub(sf)
                      IN  format_result(asm_text,
                              base \cup Shl(Bits(shift), 22) \cup Shl(Bits(imm12), 10)
                                   \cup Shl(Bits(n.idx), 5) \cup Bits(d.idx))
                 ELSE Err("Invalid " \o op \o " immediate")

encode_mov_imm(asm_text, groups) ==
    LET sf == IF groups[1] = <<"X">> THEN 1 ELSE 0
        rd == DecVal(groups[2])
        imm_val == PyInt0(groups[3])
    IN  IF imm_val < 0 THEN [raised |-> "ValueError"]
        ELSE IF imm_val <= 65535
        THEN LET base == IF sf = 1 THEN W32(\hD280, \h0000) ELSE W32(\h5280, \h0000)
             IN  format_result(asm_text,
                     base \cup Shl(Bits(0), 21) \cup Shl(Bits(imm_val), 5) \cup Bits(rd))
        ELSE Err("Cannot encode immediate with simple MOVZ")

\* _encode_mov_reg with register 0, not the zero register, as ORR's first operand
encode_mov_reg_rn0(asm_text, groups) ==
    LET rd_str == groups[1]
        rm_str == groups[2]
        d == parse_register(rd_str)
        m == parse_register(rm_str)
    IN  IF Raised(d) \/ Raised(m) THEN Err("Invalid register")
        ELSE IF rm_str \notin {T_XZR, T_WZR} /\ rd_str # T_SP /\ rm_str # T_SP /\ d.sf # m.sf
        THEN Err("Register size mismatch in MOV")
        ELSE LET sf == IF rd_str[1] = "X" \/ rd_str = T_SP \/ rm_str[1] = "X" \/ rm_str = T_SP
                       THEN 1 ELSE 0
                 base == IF sf = 1 THEN W32(\hAA00, \h0000) ELSE W32(\h2A00, \h0000)
             IN  format_result(asm_text,
                     base \cup Shl(Bits(m.idx), 16) \cup Shl(Bits(0), 5) \cup Bits(d.idx))

encode_mov_reg(asm_text, groups) ==
    LET rd_str == groups[1]
        rm_str == groups[2]
        d == parse_register(rd_str)
        m == parse_register(rm_str)
    IN  IF Raised(d) \/ Raised(m) THEN Err("Invalid register")
        ELSE IF rm_str \notin {T_XZR, T_WZR} /\ rd_str # T_SP /\ rm_str # T_SP /\ d.sf # m.sf
        THEN Err("Register size mismatch in MOV")
        ELSE LET sf == IF rd_str[1] = "X" \/ rd_str = T_SP \/ rm_str[1] = "X" \/ rm_str = T_SP
                       THEN 1 ELSE 0
                 base == IF sf = 1 THEN W32(\hAA00, \h0000) ELSE W32(\h2A00, \h0000)
             IN  format_result(asm_text,
                     base \cup Shl(Bits(m.idx), 16) \cup Shl(Bits(31), 5) \cup Bits(d.idx))

\* the body of asm_to_hex's try block
asm_to_hex_try(asm_text) ==
    LET asm_text_orig == Strip(asm_text)
        asm_text_upper == Upper(asm_text_orig)
        add_match == re_add_sub(T_ADD, asm_text_upper)
        sub_match == re_add_sub(T_SUB, asm_text_upper)
        mov_imm_match == re_mov_imm(asm_text_upper)
        mov_reg_match == re_mov_reg(asm_text_upper)
    IN  IF asm_text_upper = T_NOP
        THEN format_result(<<"n", "o", "p">>, W32(\hD503, \h201F))
        ELSE IF add_match.ok THEN encode_add_sub_imm(asm_text_orig, "ADD", add_match.groups)
        ELSE IF sub_match.ok THEN encode_add_sub_imm(asm_text_orig, "SUB", sub_match.groups)
        ELSE IF mov_imm_match.ok THEN encode_mov_imm(asm_text_orig, mov_imm_match.groups)
        ELSE IF mov_reg_match.ok THEN encode_mov_reg(asm_text_orig, mov_reg_match.groups)
        ELSE Err("Assembly pattern not yet supported")

\* except Exception: whatever the try block raised becomes an error dict
except_Exception(r) == IF Raised(r) THEN Err("Assembly parsing failed") ELSE r

asm_to_hex(asm_text) == except_Exception(asm_to_hex_try(asm_text))

----------------------------------------------------------------------------
(* What is typed at the converter.  An instruction is kept as the operands  *)
(* the user means (typed) beside the text that spells them (input), so that *)
(* what the converter makes of the text can be compared with what was meant.*)

\* numbered registers 0..MaxRegNum are written in the texts (31 and above
\* are not registers of the architecture)
MaxRegNum == 32
\* the largest --limit given to an exploration
MaxLimit == 3

\* register numbers whose bits reach beyond the operand fields
WideRegNums == {32768}

Reg(k, n) == [kind |-> k, n |-> n]
R_SP  == Reg("SP", 31)
R_XZR == Reg("XZR", 31)
R_WZR == Reg("WZR", 31)

RegText(r) ==
    CASE r.kind \in {"X", "W"} -> <<r.kind>> \o DecStr(r.n)
      [] r.kind = "SP"  -> T_SP
      [] r.kind = "XZR" -> T_XZR
      [] r.kind = "WZR" -> T_WZR

SpecialRegs ==
    {Reg("X", 0), Reg("X", 1), Reg("W", 1), Reg("X", 31), Reg("X", MaxRegNum),
     R_SP, R_XZR, R_WZR}
    \cup {Reg("W", n) : n \in WideRegNums}

ImmValues == {0, 9, 10, 291, 4095, 4096, 4097, 12288, 65535, 65536, 74565, 16773120, 16777216}

ImmStyles == {"#dec", "dec", "#hex", "hex", "# hex", "#0dec", "#-dec"}

Imm(st, v) == [style |-> st, value |-> v]

ImmText(i) ==
    CASE i.style = "#dec"  -> <<"#">> \o DecStr(i.value)
      [] i.style = "dec"   -> DecStr(i.value)
      [] i.style = "#hex"  -> <<"#", "0", "x">> \o HexStr(i.value)
      [] i.style = "hex"   -> <<"0", "x">> \o HexStr(i.value)
      [] i.style = "# hex" -> <<"#", " ", "0", "x">> \o HexStr(i.value)
      [] i.style = "#0dec" -> <<"#", "0">> \o DecStr(i.value)
      [] i.style = "#-dec" -> <<"#", "-">> \o DecStr(i.value)

Imms == {Imm(st, v) : st \in ImmStyles, v \in ImmValues}

\* the immediates written with every pair of registers
FewImms == {Imm("#dec", 1), Imm("#hex", 64), Imm("#dec", 4096)}

\* the register pairs written with every immediate
FewPairs == {<<Reg("X", 0), Reg("X", 1)>>, <<Reg("W", 1), Reg("W", 1)>>, <<R_SP, R_SP>>}

AddSub(m, rd, rn, i, l) ==
    [kind |-> "addsub", mnem |-> m, rd |-> rd, rn |-> rn, imm |-> i, lower |-> l]
MovImm(rd, i, l) == [kind |-> "movimm", rd |-> rd, imm |-> i, lower |-> l]
MovReg(rd, rm, l) == [kind |-> "movreg", rd |-> rd, rm |-> rm, lower |-> l]
Other(t) == [kind |-> "other", text |-> t]

AddSubForms ==
    {AddSub(m, rd, rn, i, FALSE) :
        m \in {"ADD", "SUB"}, rd \in SpecialRegs, rn \in SpecialRegs, i \in FewImms}
    \cup {AddSub(m, pr[1], pr[2], i, l) :
        m \in {"ADD", "SUB"}, pr \in FewPairs, i \in Imms, l \in BOOLEAN}

MovImmForms ==
    {MovImm(rd, i, FALSE) : rd \in SpecialRegs, i \in FewImms}
    \cup {MovImm(pr[1], i, FALSE) : pr \in FewPairs, i \in Imms}
    \cup {MovImm(pr[1], i, TRUE) : pr \in FewPairs, i \in FewImms}

MovRegForms ==
    {MovReg(Reg(p, d), Reg(p, m), FALSE) :
        p \in {"X", "W"}, d \in 0..MaxRegNum, m \in 0..MaxRegNum}
    \cup {MovReg(rd, rm, l) : rd \in SpecialRegs, rm \in SpecialRegs, l \in BOOLEAN}

Sep == <<",", " ">>

OtherForms ==
    {Other(t) : t \in
        {T_NOP, <<" ">> \o T_NOP \o <<" ">>, Lower(T_NOP), <<>>, <<"R", "E", "T">>,
         T_ADD \o <<" ">> \o RegText(Reg("X", 0)) \o Sep \o RegText(Reg("X", 1)) \o Sep
               \o RegText(Reg("X", 2)),
         T_ADD \o RegText(Reg("X", 0)) \o Sep \o RegText(Reg("X", 1)) \o Sep \o <<"#", "1">>,
         T_ADD \o <<"\t">> \o RegText(Reg("X", 0)) \o <<",">> \o RegText(Reg("X", 1))
               \o <<",", "#", "1">>}}

AsmForms == AddSubForms \cup MovImmForms \cup MovRegForms \cup OtherForms

MnemText(m) == IF m = "ADD" THEN T_ADD ELSE T_SUB
Cased(l, t) == IF l THEN Lower(t) ELSE t

\* the text that spells a form
TextOf(f) ==
    CASE f.kind = "addsub" ->
            Cased(f.lower, MnemText(f.mnem) \o <<" ">> \o RegText(f.rd) \o Sep \o RegText(f.rn)
                           \o Sep \o ImmText(f.imm))
      [] f.kind = "movimm" ->
            Cased(f.lower, T_MOV \o <<" ">> \o RegText(f.rd) \o Sep \o ImmText(f.imm))
      [] f.kind = "movreg" ->
            Cased(f.lower, T_MOV \o <<" ">> \o RegText(f.rd) \o Sep \o RegText(f.rm))
      [] f.kind = "other" -> f.text

\* register names handed to _parse_register, in upper, lower and mixed case
ParseRegs == {Reg(p, n) : p \in {"X", "W"}, n \in 0..MaxRegNum} \cup {R_SP, R_XZR, R_WZR}
Casings == {"upper", "lower", "mixed"}
CasedReg(c, r) ==
    CASE c = "upper" -> RegText(r)
      [] c = "lower" -> Lower(RegText(r))
      [] c = "mixed" -> <<Head(RegText(r))>> \o Lower(Tail(RegText(r)))

\* words of the classes the decoder is modelled on
AddSubImmWords ==
    {assemble_value(d, << <<"Rd", rd>>, <<"Rn", rn>>, <<"imm12", imm>>,
                          <<"shift", sh>>, <<"sf", sf>> >>, <<>>) :
        d \in {D_ADDI, D_SUBI}, rd \in {0, 31}, rn \in {1, 31},
        imm \in {0, 1, 9, 10, 291, 4095}, sh \in {0, 1}, sf \in {0, 1}}

HexWords ==
    AddSubImmWords
    \cup {W32(\hAA01, \h03E0), W32(\h2A01, \h03E0), W32(\hD280, \h0020), W32(\h5282, \h4680),
          W32(\hD503, \h201F), W32(\h2A01, \h83E0), W32(\hAA01, \h83E0), W32(\hAA21, \h03E0)}

HexTexts ==
    {<<"0", "x">> \o FormatHex08(w) : w \in HexWords}
    \cup {FormatHex08(w) : w \in HexWords}
    \cup {Lower(FormatHex08(w)) : w \in HexWords}
    \cup {<<"0", "X">> \o FormatHex08(W32(\h9104, \h8C20)),
          <<" ">> \o SubSeq(FormatHex08(W32(\h9104, \h8C20)), 1, 4) \o <<" ">>
                 \o SubSeq(FormatHex08(W32(\h9104, \h8C20)), 5, 8),
          SubSeq(FormatHex08(W32(\h9104, \h8C20)), 1, 7),
          <<"9", "1", "0", "4", "8", "C", "2", "G">>,
          <<>>}

----------------------------------------------------------------------------
(* class Emulator.  A register value is a set of bit positions below 64; a   *)
(* register file is the dict regs, a function on the names it has as keys.   *)

\* a + b on non-negative ints below 2^64, bit by bit from position i with the
\* carry c into it
RECURSIVE AddFrom(_, _, _, _)
AddFrom(a, b, i, c) ==
    IF i > 64 THEN {}
    ELSE (IF ((i \in a) # (i \in b)) # c THEN {i} ELSE {})
         \cup AddFrom(a, b, i + 1,
                      (i \in a /\ i \in b) \/ (c /\ (i \in a \/ i \in b)))

Plus(a, b) == AddFrom(a, b, 0, FALSE)

\* (a - b) & 0xFFFFFFFFFFFFFFFF for 0 <= a, b < 2^64: a + ~b + 1 modulo 2^64
Minus(a, b) == Plus(Plus(a, (0..63) \ b), {0}) \cap (0..63)

\* f"{v:#x}" for v >= 0
fmt_x(w) ==
    IF w = {} THEN <<"0", "x", "0">>
    ELSE LET n == (MaxBit(w) \div 4) + 1
         IN  <<"0", "x">> \o [k \in 1..n |-> HexLower[Field(w, 4 * (n - k), 4) + 1]]

\* str.split(c)
RECURSIVE Split(_, _)
Split(s, c) ==
    IF c \notin Range(s) THEN <<s>>
    ELSE LET i == CHOOSE i \in DOMAIN s : s[i] = c /\ \A j \in 1..(i - 1) : s[j] # c
         IN  <<SubSeq(s, 1, i - 1)>> \o Split(SubSeq(s, i + 1, Len(s)), c)

\* int(s, 0) with an optional sign: hex with 0x/0X, or decimal without a
\* leading zero; [ok |-> FALSE] is ValueError
int_base0(s) ==
    LET t == Strip(s)
        body == IF t # <<>> /\ Head(t) \in {"-", "+"} THEN Tail(t) ELSE t
        digits == SubSeq(body, 3, Len(body))
    IN  IF StartsWith(Lower(body), <<"0", "x">>) /\ IsHexString(digits)
        THEN [ok |-> TRUE, neg |-> Head(t) = "-" /\ ParseHex16(digits) # {},
              mag |-> ParseHex16(digits)]
        ELSE IF IsDecString(body) /\ PyInt0(body) # -1
        THEN [ok |-> TRUE, neg |-> Head(t) = "-" /\ DecVal(body) # 0, mag |-> Bits(DecVal(body))]
        ELSE [ok |-> FALSE]

\* Emulator.__init__
Emulator_init ==
    [regs  |-> [k \in {<<"X">> \o DecStr(i) : i \in 0..30} \cup {T_SP} |-> {}],
     flags |-> [N |-> 0, Z |-> 0, C |-> 0, V |-> 0]]

get_reg(regs, reg_name) ==
    IF Upper(reg_name) = T_XZR THEN {}
    ELSE IF Upper(reg_name) = T_WZR THEN {}
    ELSE IF StartsWith(Upper(reg_name), <<"X">>)
    THEN IF Upper(reg_name) \in DOMAIN regs THEN regs[Upper(reg_name)] ELSE {}
    ELSE IF StartsWith(Upper(reg_name), <<"W">>)
    THEN IF <<"X">> \o Tail(Upper(reg_name)) \in DOMAIN regs
         THEN regs[<<"X">> \o Tail(Upper(reg_name))] \cap (0..31) ELSE {}
    ELSE IF Upper(reg_name) = T_SP
    THEN IF T_SP \in DOMAIN regs THEN regs[T_SP] ELSE {}
    ELSE {}

\* self.regs[key] = value
SetItem(regs, key, value) ==
    [k \in DOMAIN regs \cup {key} |-> IF k = key THEN value ELSE regs[k]]

\* set_reg writing a zero-register name to the SP slot
set_reg_zr_as_sp(regs, reg_name, value) ==
    IF Upper(reg_name) \in {T_XZR, T_WZR} THEN SetItem(regs, T_SP, value \cap (0..63))
    ELSE IF StartsWith(Upper(reg_name), <<"X">>)
    THEN SetItem(regs, Upper(reg_name), value \cap (0..63))
    ELSE IF StartsWith(Upper(reg_name), <<"W">>)
    THEN SetItem(regs, <<"X">> \o Tail(Upper(reg_name)), value \cap (0..31))
    ELSE IF Upper(reg_name) = T_SP
    THEN SetItem(regs, T_SP, value \cap (0..63))
    ELSE regs

\* set_reg writing all 64 bits through a W name
set_reg_keep_upper(regs, reg_name, value) ==
    IF Upper(reg_name) \in {T_XZR, T_WZR} THEN regs
    ELSE IF StartsWith(Upper(reg_name), <<"X">>)
    THEN SetItem(regs, Upper(reg_name), value \cap (0..63))
    ELSE IF StartsWith(Upper(reg_name), <<"W">>)
    THEN SetItem(regs, <<"X">> \o Tail(Upper(reg_name)), value \cap (0..63))
    ELSE IF Upper(reg_name) = T_SP
    THEN SetItem(regs, T_SP, value \cap (0..63))
    ELSE regs

set_reg(regs, reg_name, value) ==
    IF Upper(reg_name) \in {T_XZR, T_WZR} THEN regs
    ELSE IF StartsWith(Upper(reg_name), <<"X">>)
    THEN SetItem(regs, Upper(reg_name), value \cap (0..63))
    ELSE IF StartsWith(Upper(reg_name), <<"W">>)
    THEN SetItem(regs, <<"X">> \o Tail(Upper(reg_name)), value \cap (0..31))
    ELSE IF Upper(reg_name) = T_SP
    THEN SetItem(regs, T_SP, value \cap (0..63))
    ELSE regs

\* what execute leaves and returns: the emulator and result_str
Executed(e, narrative) == [emu |-> e, narrative |-> narrative]

\* one arithmetic or logical branch of execute, after its operands are read:
\* set_reg(rd, result), then the f-string with the operand text as written
exec_binary(e, sym, rd, rn, op_text, rn_val, op_val_text, res) ==
    Executed([e EXCEPT !.regs = set_reg(e.regs, rd, res)],
             <<";", " ">> \o rd \o <<" ", "=", " ">> \o rn \o <<" ", sym, " ">> \o op_text
             \o <<" ", "=", " ">> \o fmt_x(rn_val) \o <<" ", sym, " ">> \o op_val_text
             \o <<" ", "=", " ">> \o fmt_x(res))

\* the immediate branches with the immediate added whatever the mnemonic
exec_imm_always_adds(e, sym, rd, rn, imm_str, imm, rn_val) ==
    IF ~imm.ok THEN Executed(e, <<>>)
    ELSE exec_binary(e, sym, rd, rn, imm_str, rn_val,
                     (IF imm.neg THEN <<"-">> ELSE <<>>) \o fmt_x(imm.mag),
                     IF imm.neg
                     THEN Minus(rn_val, imm.mag)
                     ELSE Plus(rn_val, imm.mag) \cap (0..63))

\* the branches "ADD/SUB and '#' in op_str", from the parsed immediate on
exec_imm(e, sym, rd, rn, imm_str, imm, rn_val) ==
    IF ~imm.ok THEN Executed(e, <<>>)
    ELSE exec_binary(e, sym, rd, rn, imm_str, rn_val,
                     (IF imm.neg THEN <<"-">> ELSE <<>>) \o fmt_x(imm.mag),
                     IF (sym = "+") = imm.neg
                     THEN Minus(rn_val, imm.mag)
                     ELSE Plus(rn_val, imm.mag) \cap (0..63))

\* the register branches of ADD, SUB, AND, ORR, EOR
exec_reg(e, sym, rd, rn, rm, rn_val, rm_val) ==
    exec_binary(e, sym, rd, rn, rm, rn_val, fmt_x(rm_val),
                CASE sym = "+" -> Plus(rn_val, rm_val) \cap (0..63)
                  [] sym = "-" -> Minus(rn_val, rm_val)
                  [] sym = "&" -> rn_val \cap rm_val
                  [] sym = "|" -> rn_val \cup rm_val
                  [] sym = "^" -> (rn_val \cup rm_val) \ (rn_val \cap rm_val))

\* the branch "MOV and '#' in op_str", from the parsed immediate on
exec_mov_imm(e, rd, imm) ==
    IF ~imm.ok THEN Executed(e, <<>>)
    ELSE IF ~imm.neg /\ imm.mag \subseteq 0..15
    THEN Executed([e EXCEPT !.regs = set_reg(e.regs, rd, imm.mag)],
                  <<";", " ">> \o rd \o <<" ", "=", " ">> \o fmt_x(imm.mag))
    ELSE Executed(e, <<";", " ">> \o rd \o <<" ", "=", " ">>
                     \o (IF imm.neg THEN <<"-">> ELSE <<>>) \o fmt_x(imm.mag)
                     \o <<" ", "(", "c", "o", "m", "p", "l", "e", "x", " ", "i", "m", "m",
                          "e", "d", "i", "a", "t", "e", ")">>)

\* the if/elif chain of execute on the upper-cased mnemonic m, the stripped
\* parts p of op_str and hash = ('#' in op_str); a tuple unpacking of the
\* wrong length and a ValueError of int() end in "except Exception: return ''"
execute_chain(e, m, p, hash) ==
    IF m \in {T_ADD, T_SUB} /\ hash
    THEN IF Len(p) # 3 THEN Executed(e, <<>>)
         ELSE exec_imm(e, IF m = T_ADD THEN "+" ELSE "-", p[1], p[2], p[3],
                       int_base0(Remove(p[3], <<"#">>)), get_reg(e.regs, p[2]))
    ELSE IF m \in {T_ADD, T_SUB} /\ Len(p) = 3
    THEN exec_reg(e, IF m = T_ADD THEN "+" ELSE "-", p[1], p[2], p[3],
                  get_reg(e.regs, p[2]), get_reg(e.regs, p[3]))
    ELSE IF m = T_MOV /\ hash
    THEN IF Len(p) # 2 THEN Executed(e, <<>>)
         ELSE exec_mov_imm(e, p[1], int_base0(Remove(p[2], <<"#">>)))
    ELSE IF m = T_MOV /\ Len(p) = 2
    THEN Executed([e EXCEPT !.regs = set_reg(e.regs, p[1], get_reg(e.regs, p[2]))],
                  <<";", " ">> \o p[1] \o <<" ", "=", " ">> \o p[2] \o <<" ", "=", " ">>
                  \o fmt_x(get_reg(e.regs, p[2])))
    ELSE IF m \in {<<"A", "N", "D">>, <<"O", "R", "R">>, <<"E", "O", "R">>} /\ ~hash
    THEN IF Len(p) # 3 THEN Executed(e, <<>>)
         ELSE exec_reg(e, CASE m = <<"A", "N", "D">> -> "&" [] m = <<"O", "R", "R">> -> "|"
                            [] OTHER -> "^",
                       p[1], p[2], p[3], get_reg(e.regs, p[2]), get_reg(e.regs, p[3]))
    ELSE Executed(e, <<>>)

execute(e, mnemonic, op_str) ==
    LET parts == Split(op_str, ",")
    IN  execute_chain(e, Upper(mnemonic), [i \in DOMAIN parts |-> Strip(parts[i])],
                      "#" \in Range(op_str))

----------------------------------------------------------------------------
(* The catalog: ISA_GROUPS as written, each group a list of descriptors in   *)
(* order ('form' and 'desc', which no computation reads, are left out), and  *)
(* the dicts built from it.  A dict is the sequence of its (key, value)      *)
(* pairs in insertion order.                                                 *)

ISA_GROUPS ==
    <<
    <<"DataProcReg", <<
      [name |-> <<"A", "D", "D">>, base |-> W32(\h0B00, \h0000), mask |-> W32(\h7FE0, \h0000),
       fields |-> << <<"Rd", <<0, 5>> >>, <<"Rn", <<5, 5>> >>, <<"Rm", <<16, 5>> >>,
                     <<"imm6", <<10, 6>> >>, <<"shift", <<22, 2>> >>, <<"sf", <<31, 1>> >> >>],
      [name |-> <<"A", "D", "D", "S">>, base |-> W32(\h2B00, \h0000), mask |-> W32(\h7FE0, \h0000),
       fields |-> << <<"Rd", <<0, 5>> >>, <<"Rn", <<5, 5>> >>, <<"Rm", <<16, 5>> >>,
                     <<"imm6", <<10, 6>> >>, <<"shift", <<22, 2>> >>, <<"sf", <<31, 1>> >> >>],
      [name |-> <<"S", "U", "B">>, base |-> W32(\h4B00, \h0000), mask |-> W32(\h7FE0, \h0000),
       fields |-> << <<"Rd", <<0, 5>> >>, <<"Rn", <<5, 5>> >>, <<"Rm", <<16, 5>> >>,
                     <<"imm6", <<10, 6>> >>, <<"shift", <<22, 2>> >>, <<"sf", <<31, 1>> >> >>],
      [name |-> <<"S", "U", "B", "S">>, base |-> W32(\h6B00, \h0000), mask |-> W32(\h7FE0, \h0000),
       fields |-> << <<"Rd", <<0, 5>> >>, <<"Rn", <<5, 5>> >>, <<"Rm", <<16, 5>> >>,
                     <<"imm6", <<10, 6>> >>, <<"shift", <<22, 2>> >>, <<"sf", <<31, 1>> >> >>],
      [name |-> <<"A", "N", "D">>, base |-> W32(\h0A00, \h0000), mask |-> W32(\h7FE0, \h0000),
       fields |-> << <<"Rd", <<0, 5>> >>, <<"Rn", <<5, 5>> >>, <<"Rm", <<16, 5>> >>,
                     <<"imm6", <<10, 6>> >>, <<"shift", <<22, 2>> >>, <<"sf", <<31, 1>> >> >>],
      [name |-> <<"O", "R", "R">>, base |-> W32(\h2A00, \h0000), mask |-> W32(\h7FE0, \h0000),
       fields |-> << <<"Rd", <<0, 5>> >>, <<"Rn", <<5, 5>> >>, <<"Rm", <<16, 5>> >>,
                     <<"imm6", <<10, 6>> >>, <<"shift", <<22, 2>> >>, <<"sf", <<31, 1>> >> >>],
      [name |-> <<"E", "O", "R">>, base |-> W32(\h4A00, \h0000), mask |-> W32(\h7FE0, \h0000),
       fields |-> << <<"Rd", <<0, 5>> >>, <<"Rn", <<5, 5>> >>, <<"Rm", <<16, 5>> >>,
                     <<"imm6", <<10, 6>> >>, <<"shift", <<22, 2>> >>, <<"sf", <<31, 1>> >> >>],
      [name |-> <<"A", "N", "D", "S">>, base |-> W32(\h6A00, \h0000), mask |-> W32(\h7FE0, \h0000),
       fields |-> << <<"Rd", <<0, 5>> >>, <<"Rn", <<5, 5>> >>, <<"Rm", <<16, 5>> >>,
                     <<"imm6", <<10, 6>> >>, <<"shift", <<22, 2>> >>, <<"sf", <<31, 1>> >> >>],
      [name |-> <<"L", "S", "L">>, base |-> W32(\h1AC0, \h2000), mask |-> W32(\h7FE0, \hFC00),
       fields |-> << <<"Rd", <<0, 5>> >>, <<"Rn", <<5, 5>> >>, <<"Rm", <<16, 5>> >>,
                     <<"sf", <<31, 1>> >> >>],
      [name |-> <<"L", "S", "R">>, base |-> W32(\h1AC0, \h2400), mask |-> W32(\h7FE0, \hFC00),
       fields |-> << <<"Rd", <<0, 5>> >>, <<"Rn", <<5, 5>> >>, <<"Rm", <<16, 5>> >>,
                     <<"sf", <<31, 1>> >> >>],
      [name |-> <<"A", "S", "R">>, base |-> W32(\h1AC0, \h2800), mask |-> W32(\h7FE0, \hFC00),
       fields |-> << <<"Rd", <<0, 5>> >>, <<"Rn", <<5, 5>> >>, <<"Rm", <<16, 5>> >>,
                     <<"sf", <<31, 1>> >> >>],
      [name |-> <<"R", "O", "R">>, base |-> W32(\h1AC0, \h2C00), mask |-> W32(\h7FE0, \hFC00),
       fields |-> << <<"Rd", <<0, 5>> >>, <<"Rn", <<5, 5>> >>, <<"Rm", <<16, 5>> >>,
                     <<"sf", <<31, 1>> >> >>]
    >> >>,
    <<"DataProcImm", <<
      [name |-> <<"A", "D", "D", "I">>, base |-> W32(\h1100, \h0000), mask |-> W32(\h7F80, \h0000),
       fields |-> << <<"Rd", <<0, 5>> >>, <<"Rn", <<5, 5>> >>, <<"imm12", <<10, 12>> >>,
                     <<"shift", <<22, 1>> >>, <<"sf", <<31, 1>> >> >>],
      [name |-> <<"S", "U", "B", "I">>, base |-> W32(\h5100, \h0000), mask |-> W32(\h7F80, \h0000),
       fields |-> << <<"Rd", <<0, 5>> >>, <<"Rn", <<5, 5>> >>, <<"imm12", <<10, 12>> >>,
                     <<"shift", <<22, 1>> >>, <<"sf", <<31, 1>> >> >>],
      [name |-> <<"A", "N", "D", "I">>, base |-> W32(\h1200, \h0000), mask |-> W32(\h7F80, \h0000),
       fields |-> << <<"Rd", <<0, 5>> >>, <<"Rn", <<5, 5>> >>, <<"immr", <<16, 6>> >>,
                     <<"imms", <<10, 6>> >>, <<"N", <<22, 1>> >>, <<"sf", <<31, 1>> >> >>],
      [name |-> <<"O", "R", "R", "I">>, base |-> W32(\h3200, \h0000), mask |-> W32(\h7F80, \h0000),
       fields |-> << <<"Rd", <<0, 5>> >>, <<"Rn", <<5, 5>> >>, <<"immr", <<16, 6>> >>,
                     <<"imms", <<10, 6>> >>, <<"N", <<22, 1>> >>, <<"sf", <<31, 1>> >> >>],
      [name |-> <<"E", "O", "R", "I">>, base |-> W32(\h5200, \h0000), mask |-> W32(\h7F80, \h0000),
       fields |-> << <<"Rd", <<0, 5>> >>, <<"Rn", <<5, 5>> >>, <<"immr", <<16, 6>> >>,
                     <<"imms", <<10, 6>> >>, <<"N", <<22, 1>> >>, <<"sf", <<31, 1>> >> >>],
      [name |-> <<"M", "O", "V", "Z">>, base |-> W32(\h5280, \h0000), mask |-> W32(\h7F80, \h0000),
       fields |-> << <<"Rd", <<0, 5>> >>, <<"imm16", <<5, 16>> >>, <<"hw", <<21, 2>> >>,
                     <<"sf", <<31, 1>> >> >>],
      [name |-> <<"M", "O", "V", "K">>, base |-> W32(\h7280, \h0000), mask |-> W32(\h7F80, \h0000),
       fields |-> << <<"Rd", <<0, 5>> >>, <<"imm16", <<5, 16>> >>, <<"hw", <<21, 2>> >>,
                     <<"sf", <<31, 1>> >> >>],
      [name |-> <<"A", "D", "R", "P">>, base |-> W32(\h9000, \h0000), mask |-> W32(\h9F00, \h0000),
       fields |-> << <<"Rd", <<0, 5>> >>, <<"immlo", <<29, 2>> >>, <<"immhi", <<5, 19>> >> >>]
    >> >>,
    <<"LoadStore", <<
      [name |-> <<"L", "D", "R">>, base |-> W32(\hB940, \h0000), mask |-> W32(\hFFC0, \h0000),
       fields |-> << <<"Rt", <<0, 5>> >>, <<"Rn", <<5, 5>> >>, <<"imm12", <<10, 12>> >>,
                     <<"size", <<30, 2>> >> >>],
      [name |-> <<"S", "T", "R">>, base |-> W32(\hB900, \h0000), mask |-> W32(\hFFC0, \h0000),
       fields |-> << <<"Rt", <<0, 5>> >>, <<"Rn", <<5, 5>> >>, <<"imm12", <<10, 12>> >>,
                     <<"size", <<30, 2>> >> >>],
      [name |-> <<"L", "D", "R", "B">>, base |-> W32(\h3940, \h0000), mask |-> W32(\hFFC0, \h0000),
       fields |-> << <<"Rt", <<0, 5>> >>, <<"Rn", <<5, 5>> >>, <<"imm12", <<10, 12>> >> >>],
      [name |-> <<"S", "T", "R", "B">>, base |-> W32(\h3900, \h0000), mask |-> W32(\hFFC0, \h0000),
       fields |-> << <<"Rt", <<0, 5>> >>, <<"Rn", <<5, 5>> >>, <<"imm12", <<10, 12>> >> >>],
      [name |-> <<"L", "D", "R", "H">>, base |-> W32(\h7940, \h0000), mask |-> W32(\hFFC0, \h0000),
       fields |-> << <<"Rt", <<0, 5>> >>, <<"Rn", <<5, 5>> >>, <<"imm12", <<10, 12>> >> >>],
      [name |-> <<"S", "T", "R", "H">>, base |-> W32(\h7900, \h0000), mask |-> W32(\hFFC0, \h0000),
       fields |-> << <<"Rt", <<0, 5>> >>, <<"Rn", <<5, 5>> >>, <<"imm12", <<10, 12>> >> >>],
      [name |-> <<"L", "D", "P">>, base |-> W32(\hA940, \h0000), mask |-> W32(\h7F80, \h0000),
       fields |-> << <<"Rt", <<0, 5>> >>, <<"Rn", <<5, 5>> >>, <<"Rt2", <<10, 5>> >>,
                     <<"imm7", <<15, 7>> >>, <<"L", <<22, 1>> >>, <<"V", <<26, 1>> >> >>],
      [name |-> <<"S", "T", "P">>, base |-> W32(\hA900, \h0000), mask |-> W32(\h7F80, \h0000),
       fields |-> << <<"Rt", <<0, 5>> >>, <<"Rn", <<5, 5>> >>, <<"Rt2", <<10, 5>> >>,
                     <<"imm7", <<15, 7>> >>, <<"L", <<22, 1>> >>, <<"V", <<26, 1>> >> >>],
      [name |-> <<"L", "D", "U", "R">>, base |-> W32(\hB840, \h0000), mask |-> W32(\hFFE0, \h0C00),
       fields |-> << <<"Rt", <<0, 5>> >>, <<"Rn", <<5, 5>> >>, <<"imm9", <<12, 9>> >>,
                     <<"size", <<30, 2>> >> >>],
      [name |-> <<"S", "T", "U", "R">>, base |-> W32(\hB800, \h0000), mask |-> W32(\hFFE0, \h0C00),
       fields |-> << <<"Rt", <<0, 5>> >>, <<"Rn", <<5, 5>> >>, <<"imm9", <<12, 9>> >>,
                     <<"size", <<30, 2>> >> >>]
    >> >>,
    <<"Branch", <<
      [name |-> <<"B">>, base |-> W32(\h1400, \h0000), mask |-> W32(\hFC00, \h0000),
       fields |-> << <<"imm26", <<0, 26>> >> >>],
      [name |-> <<"B", "L">>, base |-> W32(\h9400, \h0000), mask |-> W32(\hFC00, \h0000),
       fields |-> << <<"imm26", <<0, 26>> >> >>],
      [name |-> <<"B", ".", "C", "O", "N", "D">>,
       base |-> W32(\h5400, \h0000), mask |-> W32(\hFF00, \h0010),
       fields |-> << <<"cond", <<0, 4>> >>, <<"imm19", <<5, 19>> >> >>],
      [name |-> <<"B", "R">>, base |-> W32(\hD61F, \h0000), mask |-> W32(\hFFFF, \hFC1F),
       fields |-> << <<"Rn", <<5, 5>> >> >>],
      [name |-> <<"B", "L", "R">>, base |-> W32(\hD63F, \h0000), mask |-> W32(\hFFFF, \hFC1F),
       fields |-> << <<"Rn", <<5, 5>> >> >>],
      [name |-> <<"R", "E", "T">>, base |-> W32(\hD65F, \h0000), mask |-> W32(\hFFFF, \hFC1F),
       fields |-> << <<"Rn", <<5, 5>> >> >>],
      [name |-> <<"C", "B", "Z">>, base |-> W32(\h3400, \h0000), mask |-> W32(\h7F00, \h0000),
       fields |-> << <<"Rt", <<0, 5>> >>, <<"imm19", <<5, 19>> >>, <<"sf", <<31, 1>> >> >>],
      [name |-> <<"C", "B", "N", "Z">>, base |-> W32(\h3500, \h0000), mask |-> W32(\h7F00, \h0000),
       fields |-> << <<"Rt", <<0, 5>> >>, <<"imm19", <<5, 19>> >>, <<"sf", <<31, 1>> >> >>]
    >> >>,
    <<"System", <<
      [name |-> <<"N", "O", "P">>, base |-> W32(\hD503, \h201F), mask |-> W32(\hFFFF, \hFFFF),
       fields |-> << >>],
      [name |-> <<"S", "V", "C">>, base |-> W32(\hD400, \h0001), mask |-> W32(\hFFE0, \h001F),
       fields |-> << <<"imm16", <<5, 16>> >> >>],
      [name |-> <<"M", "R", "S">>, base |-> W32(\hD530, \h0000), mask |-> W32(\hFFF0, \h0000),
       fields |-> << <<"Rt", <<0, 5>> >>, <<"op1", <<16, 3>> >>, <<"CRn", <<12, 4>> >>,
                     <<"CRm", <<8, 4>> >>, <<"op2", <<5, 3>> >> >>],
      [name |-> <<"M", "S", "R">>, base |-> W32(\hD510, \h0000), mask |-> W32(\hFFF0, \h0000),
       fields |-> << <<"Rt", <<0, 5>> >>, <<"op1", <<16, 3>> >>, <<"CRn", <<12, 4>> >>,
                     <<"CRm", <<8, 4>> >>, <<"op2", <<5, 3>> >> >>]
    >> >>,
    <<"ARMv8.3_PAC", <<
      [name |-> <<"P", "A", "C", "I", "A">>,
       base |-> W32(\hDAC1, \h0800), mask |-> W32(\hFFFF, \hE400),
       fields |-> << <<"Rd", <<0, 5>> >>, <<"Rn", <<5, 5>> >>, <<"Z", <<10, 1>> >> >>],
      [name |-> <<"A", "U", "T", "I", "A">>,
       base |-> W32(\hDAC1, \h0C00), mask |-> W32(\hFFFF, \hE400),
       fields |-> << <<"Rd", <<0, 5>> >>, <<"Rn", <<5, 5>> >>, <<"Z", <<10, 1>> >> >>],
      [name |-> <<"P", "A", "C", "I", "B">>,
       base |-> W32(\hDAC1, \h0C00), mask |-> W32(\hFFFF, \hE400),
       fields |-> << <<"Rd", <<0, 5>> >>, <<"Rn", <<5, 5>> >>, <<"Z", <<10, 1>> >> >>],
      [name |-> <<"A", "U", "T", "I", "B">>,
       base |-> W32(\hDAC1, \h1A00), mask |-> W32(\hFFFF, \hE400),
       fields |-> << <<"Rd", <<0, 5>> >>, <<"Rn", <<5, 5>> >>, <<"Z", <<10, 1>> >> >>]
    >> >>,
    <<"ARMv8.5_MTE", <<
      [name |-> <<"L", "D", "G">>, base |-> W32(\hD960, \h0000), mask |-> W32(\hFFE0, \h0C00),
       fields |-> << <<"Xt", <<0, 5>> >>, <<"Rn", <<5, 5>> >>, <<"imm9", <<12, 9>> >> >>],
      [name |-> <<"S", "T", "G">>, base |-> W32(\hD920, \h0000), mask |-> W32(\hFFE0, \h0C00),
       fields |-> << <<"Xt", <<0, 5>> >>, <<"Rn", <<5, 5>> >>, <<"imm9", <<12, 9>> >> >>],
      [name |-> <<"S", "T", "Z", "G">>, base |-> W32(\hD921, \h0000), mask |-> W32(\hFFE0, \h0C00),
       fields |-> << <<"Xt", <<0, 5>> >>, <<"Rn", <<5, 5>> >>, <<"imm9", <<12, 9>> >> >>]
    >> >>
    >>

\* for group in ISA_GROUPS.values() for entry in group
RECURSIVE Entries(_)
Entries(groups) == IF groups = <<>> THEN <<>> ELSE Head(groups)[2] \o Entries(Tail(groups))

\* {entry["name"]: entry for ...}: a key met again keeps its place and takes
\* the later entry
RECURSIVE DictByName(_, _)
DictByName(d, entries) ==
    IF entries = <<>> THEN d
    ELSE DictByName(IF Has(d, Head(entries).name)
                    THEN [i \in DOMAIN d |-> IF d[i][1] = Head(entries).name
                                             THEN <<Head(entries).name, Head(entries)>>
                                             ELSE d[i]]
                    ELSE Append(d, <<Head(entries).name, Head(entries)>>),
                    Tail(entries))

OPCODE_MAP == DictByName(<<>>, Entries(ISA_GROUPS))

\* the alias table with the lock of CMN one too wide for Rd
INSTRUCTION_ALIASES_wide_lock ==
    << << <<"C", "M", "P">>,
          [base_op |-> <<"S", "U", "B", "S">>, locked_fields |-> << <<"Rd", 31>> >>]>>,
       << <<"C", "M", "N">>,
          [base_op |-> <<"A", "D", "D", "S">>, locked_fields |-> << <<"Rd", 32>> >>]>>,
       << <<"T", "S", "T">>,
          [base_op |-> <<"A", "N", "D", "S">>, locked_fields |-> << <<"Rd", 31>> >>]>> >>

INSTRUCTION_ALIASES ==
    << << <<"C", "M", "P">>,
          [base_op |-> <<"S", "U", "B", "S">>, locked_fields |-> << <<"Rd", 31>> >>]>>,
       << <<"C", "M", "N">>,
          [base_op |-> <<"A", "D", "D", "S">>, locked_fields |-> << <<"Rd", 31>> >>]>>,
       << <<"T", "S", "T">>,
          [base_op |-> <<"A", "N", "D", "S">>, locked_fields |-> << <<"Rd", 31>> >>]>> >>

\* the pattern written bit 0 first
get_binary_pattern_lsb_first(base, mask) ==
    LET bitstr == [k \in 1..32 |-> IF (k - 1) \in mask
                                   THEN (IF (k - 1) \in base THEN "1" ELSE "0")
                                   ELSE "x"]
    IN  [j \in 1..39 |-> IF j % 5 = 0 THEN " " ELSE bitstr[j - (j \div 5)]]

\* the 32 characters, bit 31 first, joined in groups of four by a space
get_binary_pattern(base, mask) ==
    LET bitstr == [k \in 1..32 |-> IF (32 - k) \in mask
                                   THEN (IF (32 - k) \in base THEN "1" ELSE "0")
                                   ELSE "x"]
    IN  [j \in 1..39 |-> IF j % 5 = 0 THEN " " ELSE bitstr[j - (j \div 5)]]

\* the colouring with red and yellow exchanged
colorize_bits_swapped(base, mask, val) ==
    LET vbit(i) == IF i \in val THEN "1" ELSE "0"
        piece(i) == IF i \in mask /\ ((i \in val) # (i \in base))
                    THEN <<"\\033[1;33m", vbit(i), "\\033[0m">>
                    ELSE IF i \notin mask /\ ((i \in val) # (i \in base))
                    THEN <<"\\033[1;31m", vbit(i), "\\033[0m">>
                    ELSE <<vbit(i)>>
        RECURSIVE joined(_)
        joined(i) == IF i < 0 THEN <<>> ELSE piece(i) \o joined(i - 1)
    IN  joined(31)

\* the joined pieces, bit 31 first; an escape sequence is one element
colorize_bits(base, mask, val) ==
    LET vbit(i) == IF i \in val THEN "1" ELSE "0"
        piece(i) == IF i \in mask /\ ((i \in val) # (i \in base))
                    THEN <<"\\033[1;31m", vbit(i), "\\033[0m">>
                    ELSE IF i \notin mask /\ ((i \in val) # (i \in base))
                    THEN <<"\\033[1;33m", vbit(i), "\\033[0m">>
                    ELSE <<vbit(i)>>
        RECURSIVE joined(_)
        joined(i) == IF i < 0 THEN <<>> ELSE piece(i) \o joined(i - 1)
    IN  joined(31)

\* the first loop of iterate_field_space: one domain per varied name that is
\* a field, in the order given.  A domain is the list [locked & (max_val - 1)]
\* (with a warning printed when locked >= max_val) or range(0, max_val,
\* actual_step), held as its first value, its stride and its length; range()
\* is empty for a negative step and raises ValueError for step 0, which ends
\* the loop
RECURSIVE Domains(_, _, _, _)
Domains(fields, vary_fields, locks, step) ==
    IF vary_fields = <<>> THEN <<>>
    ELSE LET fname == Head(vary_fields)
             width == Get(fields, fname)[2]
             max_val == 2 ^ width
             stride == IF width <= 2 THEN 1 ELSE step
             actual_step == IF stride < max_val THEN stride ELSE max_val
             domain == IF Has(locks, fname)
                       THEN [fname |-> fname, first |-> Get(locks, fname) % max_val,
                             stride |-> 1, size |-> 1,
                             warned |-> Get(locks, fname) >= max_val, raises |-> FALSE]
                       ELSE [fname |-> fname, first |-> 0, stride |-> actual_step,
                             size |-> IF actual_step > 0
                                      THEN (max_val + actual_step - 1) \div actual_step
                                      ELSE 0,
                             warned |-> FALSE, raises |-> actual_step = 0]
         IN  IF ~Has(fields, fname) THEN Domains(fields, Tail(vary_fields), locks, step)
             ELSE IF domain.raises THEN <<domain>>
             ELSE <<domain>> \o Domains(fields, Tail(vary_fields), locks, step)

\* iterate_field_space taken to yield {} once, the base encoding, when no
\* given name is a field
iterate_field_space_base_on_invalid(fields, vary_fields, locks, step) ==
    LET domains == Domains(fields, vary_fields, locks, step)
    IN  IF domains # <<>> /\ domains[Len(domains)].raises
        THEN [yields |-> "ValueError", domains |-> domains]
        ELSE IF domains = <<>> THEN [yields |-> "once"]
        ELSE [yields |-> "product", domains |-> domains]

\* iterate_field_space taken to yield nothing when only locks are given
iterate_field_space_no_once(fields, vary_fields, locks, step) ==
    LET domains == Domains(fields, vary_fields, locks, step)
    IN  IF domains # <<>> /\ domains[Len(domains)].raises
        THEN [yields |-> "ValueError", domains |-> domains]
        ELSE IF vary_fields = <<>> /\ locks # <<>> THEN [yields |-> "nothing"]
        ELSE IF domains = <<>> /\ vary_fields # <<>> THEN [yields |-> "nothing"]
        ELSE IF domains = <<>> /\ vary_fields = <<>> /\ fields # <<>> THEN [yields |-> "once"]
        ELSE [yields |-> "product", domains |-> domains]

\* the generator iterate_field_space(fields, vary_fields, locks, step): what
\* it will do when asked for values: raise the ValueError of range(), yield
\* {} once, yield nothing, or yield the product of its domains
iterate_field_space(fields, vary_fields, locks, step) ==
    LET domains == Domains(fields, vary_fields, locks, step)
    IN  IF domains # <<>> /\ domains[Len(domains)].raises
        THEN [yields |-> "ValueError", domains |-> domains]
        ELSE IF vary_fields = <<>> /\ locks # <<>> THEN [yields |-> "once"]
        ELSE IF domains = <<>> /\ vary_fields # <<>> THEN [yields |-> "nothing"]
        ELSE IF domains = <<>> /\ vary_fields = <<>> /\ fields # <<>> THEN [yields |-> "once"]
        ELSE [yields |-> "product", domains |-> domains]

\* next() on the generator after n values: the next combo_map, or exhaustion.
\* itertools.product varies the last domain fastest; the dict keeps a name
\* given twice at its first place with its last value
next_combo(gen, n) ==
    LET RECURSIVE size(_)
        size(domains) == IF domains = <<>> THEN 1
                         ELSE Head(domains).size * size(Tail(domains))
        set(d, k, v) == IF Has(d, k)
                        THEN [i \in DOMAIN d |-> IF d[i][1] = k THEN <<k, v>> ELSE d[i]]
                        ELSE Append(d, <<k, v>>)
        RECURSIVE combo(_, _)
        combo(domains, combo_map) ==
            IF domains = <<>> THEN combo_map
            ELSE combo(Tail(domains),
                       set(combo_map, Head(domains).fname,
                           Head(domains).first
                           + ((n \div size(Tail(domains))) % Head(domains).size)
                             * Head(domains).stride))
    IN  IF gen.yields = "once"
        THEN (IF n = 0 THEN [stop |-> FALSE, combo_map |-> <<>>] ELSE [stop |-> TRUE])
        ELSE IF gen.yields \in {"nothing", "ValueError"} THEN [stop |-> TRUE]
        ELSE IF n < size(gen.domains)
        THEN [stop |-> FALSE, combo_map |-> combo(gen.domains, <<>>)]
        ELSE [stop |-> TRUE]

\* list(gen): every combo_map the generator yields from its n-th on
RECURSIVE Collect(_, _)
Collect(gen, n) ==
    LET pull == next_combo(gen, n)
    IN  IF pull.stop THEN <<>> ELSE <<pull.combo_map>> \o Collect(gen, n + 1)

\* explore_opcode up to its loop: the vary-set made valid or defaulted, the
\* limit forced to 1 when no given name is valid, the single line of a
\* descriptor without fields or with nothing to vary, or else the generator
\* at its start.  lines are the values printed, diagnosed the fields a
\* clamping warning was printed for.
explore_opcode(opname, spec, limit, step, vary_fields, locks) ==
    LET fields == spec.fields
        valid_vary_fields == SelectSeq(vary_fields, LAMBDA f : Has(fields, f))
        vary == IF vary_fields = <<>> THEN [k \in DOMAIN fields |-> fields[k][1]]
                ELSE valid_vary_fields
        lim == IF vary_fields # <<>> /\ valid_vary_fields = <<>> /\ fields # <<>>
               THEN 1 ELSE limit
        at(pc, count, lines, gen, diagnosed) ==
            [pc |-> pc, opname |-> opname, spec |-> spec, locks |-> locks,
             vary_fields |-> vary, limit |-> lim, step |-> step, count |-> count,
             lines |-> lines, gen |-> gen, pulled |-> 0, diagnosed |-> diagnosed]
    IN  IF fields = <<>> THEN at("done", 1, <<spec.base>>, [yields |-> "nothing"], {})
        ELSE IF vary = <<>> /\ lim > 0
        THEN at("done", 1, <<assemble_value(spec, <<>>, locks)>>, [yields |-> "nothing"],
                assemble_value_warns(spec, <<>>, locks))
        ELSE at("loop", 0, <<>>, iterate_field_space(fields, vary, locks, step), {})

\* main, describe: an alias is replaced by its base opcode and its locks are
\* added where the user gave none
describe_alias(dname, locks) ==
    LET RECURSIVE merged(_, _)
        merged(l, items) ==
            IF items = <<>> THEN l
            ELSE merged(IF ~Has(l, Head(items)[1]) THEN Append(l, Head(items)) ELSE l,
                        Tail(items))
    IN  IF Has(INSTRUCTION_ALIASES, dname)
        THEN [name |-> Get(INSTRUCTION_ALIASES, dname).base_op,
              locks |-> merged(locks, Get(INSTRUCTION_ALIASES, dname).locked_fields)]
        ELSE [name |-> dname, locks |-> locks]

\* alias locks that replace the user's
explore_alias_alias_wins(opname, locks) ==
    LET RECURSIVE merged(_, _)
        merged(l, items) ==
            IF items = <<>> THEN l
            ELSE merged(IF ~Has(l, Head(items)[1]) THEN Append(l, Head(items))
                        ELSE [i \in DOMAIN l |-> IF l[i][1] = Head(items)[1]
                                                 THEN Head(items) ELSE l[i]],
                        Tail(items))
    IN  IF Has(INSTRUCTION_ALIASES, opname)
        THEN [name |-> Get(INSTRUCTION_ALIASES, opname).base_op,
              locks |-> merged(locks, Get(INSTRUCTION_ALIASES, opname).locked_fields)]
        ELSE [name |-> opname, locks |-> locks]

\* main, single opcode exploration: the same for the opcode to explore
explore_alias(opname, locks) ==
    LET RECURSIVE merged(_, _)
        merged(l, items) ==
            IF items = <<>> THEN l
            ELSE merged(IF ~Has(l, Head(items)[1]) THEN Append(l, Head(items)) ELSE l,
                        Tail(items))
    IN  IF Has(INSTRUCTION_ALIASES, opname)
        THEN [name |-> Get(INSTRUCTION_ALIASES, opname).base_op,
              locks |-> merged(locks, Get(INSTRUCTION_ALIASES, opname).locked_fields)]
        ELSE [name |-> opname, locks |-> locks]

----------------------------------------------------------------------------
(* interactive_converter: the loop reads a command at its prompt, runs it,   *)
(* prints the dict it returned and comes back to the prompt.  The tests call *)
(* _parse_register on a register name directly.                              *)

NoDict == [none |-> TRUE]
Untyped == [kind |-> "none"]
NoCall == [fn |-> "none"]
NotExploring == [pc |-> "none"]

Init ==
    /\ command = "none"
    /\ typed = Untyped
    /\ input = <<>>
    /\ result = NoDict
    /\ origin = NoDict
    /\ emu = Emulator_init
    /\ call = NoCall
    /\ ret = NoCall
    /\ explore = NotExploring

\* "asm <instruction>"
AsmToHex ==
    \E f \in AsmForms :
        /\ command = "none"
        /\ command' = "asm"
        /\ typed' = f
        /\ input' = TextOf(f)
        /\ result' = asm_to_hex(TextOf(f))
        /\ origin' = NoDict
        /\ UNCHANGED <<emu, call, ret, explore>>

\* "hex <value>"
HexToAsm ==
    \E text \in HexTexts :
        /\ command = "none"
        /\ command' = "hex"
        /\ typed' = Untyped
        /\ input' = text
        /\ result' = hex_to_asm(text)
        /\ origin' = NoDict
        /\ UNCHANGED <<emu, call, ret, explore>>

\* "asm <instruction>" with the assembly a "hex" command has just printed
RoundTrip ==
    /\ command = "hex"
    /\ "asm" \in DOMAIN result
    /\ command' = "roundtrip"
    /\ typed' = Untyped
    /\ input' = result.asm
    /\ result' = asm_to_hex(result.asm)
    /\ origin' = result
    /\ UNCHANGED <<emu, call, ret, explore>>

\* io._parse_register(name)
ParseRegister ==
    \E r \in ParseRegs, c \in Casings :
        /\ command = "none"
        /\ command' = "parse"
        /\ typed' = [kind |-> "reg", reg |-> r]
        /\ input' = CasedReg(c, r)
        /\ result' = parse_register(CasedReg(c, r))
        /\ origin' = NoDict
        /\ UNCHANGED <<emu, call, ret, explore>>

\* the result has been printed: back to the prompt
Prompt ==
    /\ command # "none"
    /\ command' = "none"
    /\ typed' = Untyped
    /\ input' = <<>>
    /\ result' = NoDict
    /\ origin' = NoDict
    /\ UNCHANGED <<emu, call, ret, explore>>

Next == AsmToHex \/ HexToAsm \/ RoundTrip \/ ParseRegister \/ Prompt

Spec == Init /\ [][Next]_vars

----------------------------------------------------------------------------
(* An emulator session, as the tests run it: registers of a new Emulator are *)
(* set, one instruction is executed, and the session ends.                   *)

AllOnes64 == 0..63
SetupNames == << <<"X", "0">>, <<"X", "1">>, <<"W", "1">>, T_SP, T_XZR >>

\* the mnemonics and operand lists handed to execute: three-operand forms,
\* MOV forms, and operand lists of a wrong length or with a shifted operand
Instructions ==
    LET Dests == {<<"X", "0">>, <<"w", "1">>, T_XZR, <<"w", "z", "r">>, T_SP, <<"X", "3", "1">>}
        Srcs  == {<<"X", "0">>, <<"X", "1">>, <<"W", "1">>, T_SP}
        Thirds == {<<"X", "1">>, <<"#", "1">>, <<"#", "-", "1">>, <<"#", "z", "z">>,
                   <<"f", "o", "o">>, <<"0", "x", "f", "f">>}
        MovSrcs == {<<"X", "1">>, <<"W", "1">>, T_SP, T_XZR, <<"#", "0", "x", "1", "0">>,
                    <<"#", "0", "x", "1", "0", "0", "0", "0">>, <<"#", "-", "1">>,
                    <<"#", "z", "z">>, <<"f", "o", "o">>}
        Others == {<<"A", "N", "D">>, <<"O", "R", "R">>, <<"E", "O", "R">>, <<"M", "U", "L">>}
        OddShapes ==
            {<<>>, << <<"X", "0">> >>, << <<"X", "0">>, <<"X", "1">> >>,
             << <<"X", "0">>, <<"X", "1">>, <<"#", "1">>, <<"l", "s", "l", " ", "#", "1", "2">> >>,
             << <<"X", "0">>, <<"X", "1">>, <<"X", "1">>, <<"l", "s", "l", " ", "#", "2">> >>,
             << <<"X", "0">>, <<"X", "1">>, <<"X", "0">> >>,
             << <<"X", "0">>, <<"#", "1">> >>}
    IN  {<<m, <<d, n, t>> >> : m \in {T_ADD, T_SUB}, d \in Dests, n \in Srcs, t \in Thirds}
        \cup {<<m, <<d, n, t>> >> : m \in Others, d \in Dests, n \in {<<"X", "1">>, T_SP},
                                    t \in {<<"X", "0">>, <<"#", "1">>, <<"f", "o", "o">>}}
        \cup {<<m, <<d, n>> >> : m \in {T_MOV, Lower(T_MOV)}, d \in Dests, n \in MovSrcs}
        \cup {<<m, p>> : m \in Others \cup {T_ADD, T_SUB, T_MOV, Lower(T_ADD)}, p \in OddShapes}

\* ", ".join(parts)
RECURSIVE JoinOps(_)
JoinOps(p) == IF p = <<>> THEN <<>>
              ELSE IF Len(p) = 1 THEN p[1]
              ELSE p[1] \o <<",", " ">> \o JoinOps(Tail(p))

\* emu.set_reg(name, value) on registers not set before, in the order of SetupNames
SetReg ==
    \E i \in DOMAIN SetupNames, v \in {Bits(5), AllOnes64} :
        /\ call.fn \in {"none", "set_reg"}
        /\ call.fn = "set_reg" => call.index < i
        /\ emu' = [emu EXCEPT !.regs = set_reg(emu.regs, SetupNames[i], v)]
        /\ call' = [fn |-> "set_reg", index |-> i, name |-> SetupNames[i], value |-> v,
                    before |-> emu]
        /\ ret' = NoCall
        /\ UNCHANGED <<command, typed, input, result, origin, explore>>

\* emu.execute(mnemonic, op_str)
Execute ==
    \E ins \in Instructions :
        /\ call.fn \in {"none", "set_reg"}
        /\ LET done == execute(emu, ins[1], JoinOps(ins[2]))
           IN  emu' = done.emu /\ ret' = [value |-> done.narrative]
        /\ call' = [fn |-> "execute", mnemonic |-> ins[1], parts |-> ins[2],
                    op_str |-> JoinOps(ins[2]), before |-> emu]
        /\ UNCHANGED <<command, typed, input, result, origin, explore>>

\* emu = Emulator()
NewEmulator ==
    /\ call.fn = "execute"
    /\ emu' = Emulator_init
    /\ call' = NoCall
    /\ ret' = NoCall
    /\ UNCHANGED <<command, typed, input, result, origin, explore>>

EmuNext == SetReg \/ Execute \/ NewEmulator

EmuSpec == Init /\ [][EmuNext]_vars

----------------------------------------------------------------------------
(* The field-space tool: calls of the codec functions on the descriptors of  *)
(* the catalog.  call holds the function called and its arguments, ret what  *)
(* it returned.                                                              *)

\* assemble_value(spec, combo_map, locks) for a descriptor of the catalog: no,
\* one or two varied fields (or a name that is no field of the descriptor)
\* with no lock or a lock on such a name, and no or one varied field with a
\* lock on a field (the varied one or another) that exceeds most widths
AssembleValue ==
    \E i \in DOMAIN OPCODE_MAP :
        LET spec == OPCODE_MAP[i][2]
            names == {spec.fields[k][1] : k \in DOMAIN spec.fields}
            maps == {<<>>}
                    \cup {<< <<f, v>> >> : f \in names \cup {"zz"},
                                           v \in {0, 1, 31, 32, 4097, -1}}
                    \cup {<< <<fg[1], -1>>, <<fg[2], 1>> >> :
                              fg \in {x \in names \X names : x[1] # x[2]}}
            calls == (maps \X {<<>>, << <<"zz", 3>> >>})
                     \cup (({<<>>} \cup {<< <<f, -1>> >> : f \in names})
                           \X {<< <<g, 33>> >> : g \in names})
        IN  \E c \in calls :
                /\ call = NoCall
                /\ explore = NotExploring
                /\ call' = [fn |-> "assemble_value", spec |-> spec,
                            combo_map |-> c[1], locks |-> c[2]]
                /\ ret' = [val |-> assemble_value(spec, c[1], c[2])]
                /\ UNCHANGED <<command, typed, input, result, origin, emu, explore>>

\* explore_opcode prints colorize_bits(base, mask, val) of the value it assembled
ColorizeBits ==
    /\ call.fn = "assemble_value"
    /\ call' = [fn |-> "colorize_bits", base |-> call.spec.base, mask |-> call.spec.mask,
                val |-> ret.val, spec |-> call.spec, combo_map |-> call.combo_map,
                locks |-> call.locks]
    /\ ret' = [value |-> colorize_bits(call.spec.base, call.spec.mask, ret.val)]
    /\ UNCHANGED <<command, typed, input, result, origin, emu, explore>>

\* describe_opcode prints get_binary_pattern(spec['base'], spec['mask'])
GetBinaryPattern ==
    \E i \in DOMAIN OPCODE_MAP :
        /\ call = NoCall
        /\ explore = NotExploring
        /\ call' = [fn |-> "get_binary_pattern", base |-> OPCODE_MAP[i][2].base,
                    mask |-> OPCODE_MAP[i][2].mask, spec |-> OPCODE_MAP[i][2]]
        /\ ret' = [value |-> get_binary_pattern(OPCODE_MAP[i][2].base,
                                                OPCODE_MAP[i][2].mask)]
        /\ UNCHANGED <<command, typed, input, result, origin, emu, explore>>

\* python ARMv9.py --describe NAME [--lock F=V]: main resolves the alias and
\* describe_opcode prints the pattern and the locks that name a field
MainDescribe ==
    \E describe \in {<<"c", "m", "p">>, <<"C", "M", "N">>, <<"t", "s", "t">>,
                     <<"s", "u", "b", "s">>, <<"A", "D", "D">>, <<"n", "o", "p">>,
                     <<"f", "o", "o">>},
       locks \in {<<>>, << <<"Rd", 5>> >>, << <<"Rn", 40>> >>,
                  << <<"Rn", 1>>, <<"Rd", 0>> >>, << <<"zz", 3>> >>} :
        LET to == describe_alias(Upper(describe), locks)
        IN  /\ call = NoCall
            /\ explore = NotExploring
            /\ call' = [fn |-> "main_describe", opcode |-> describe, given |-> locks,
                        name |-> to.name, locks |-> to.locks]
            /\ ret' = IF Has(OPCODE_MAP, to.name)
                      THEN [pattern |-> get_binary_pattern(Get(OPCODE_MAP, to.name).base,
                                                           Get(OPCODE_MAP, to.name).mask),
                            relevant_locks |->
                                SelectSeq(to.locks,
                                          LAMBDA l : Has(Get(OPCODE_MAP, to.name).fields, l[1]))]
                      ELSE [unknown |-> to.name]
            /\ UNCHANGED <<command, typed, input, result, origin, emu, explore>>

\* python ARMv9.py NAME [--limit N] [--step S] [--vary F ...] [--lock F=V]:
\* main resolves the alias and calls explore_opcode, here up to its loop
MainExplore ==
    \E opcode \in {<<"c", "m", "p">>, <<"C", "M", "N">>, <<"t", "s", "t">>,
                   <<"s", "u", "b", "s">>, <<"A", "D", "D">>, <<"n", "o", "p">>,
                   <<"m", "o", "v", "z">>, <<"f", "o", "o">>},
       locks \in {<<>>, << <<"Rd", 5>> >>, << <<"Rn", 40>> >>, << <<"Rd", -1>> >>,
                  << <<"zz", 3>> >>},
       vary \in {<<>>, <<"sf">>, <<"Rd">>, <<"Rd", "sf">>, <<"hw", "Rd">>, <<"zz">>,
                 <<"Rd", "zz">>},
       limit \in 0..MaxLimit,
       step \in {-1, 0, 4, 16} :
        LET to == explore_alias(Upper(opcode), locks)
        IN  /\ call = NoCall
            /\ explore = NotExploring
            /\ call' = [fn |-> "main_explore", opcode |-> opcode, given |-> locks,
                        vary |-> vary, limit |-> limit, step |-> step,
                        name |-> to.name, locks |-> to.locks]
            /\ explore' = IF Has(OPCODE_MAP, to.name)
                          THEN explore_opcode(to.name, Get(OPCODE_MAP, to.name), limit, step,
                                              vary, to.locks)
                          ELSE [pc |-> "done", unknown |-> to.name, count |-> 0,
                                lines |-> <<>>, pulled |-> 0, diagnosed |-> {}]
            /\ ret' = NoCall
            /\ UNCHANGED <<command, typed, input, result, origin, emu>>

\* one turn of the loop of explore_opcode: the next combo_map is asked of the
\* generator (which, asked first, builds its domains and prints their
\* warnings, or raises), its value is assembled and printed, and the loop is
\* left when the generator is exhausted or count has reached limit; an
\* exception leaves explore_opcode and main
ExploreLoop ==
    /\ explore.pc = "loop"
    /\ LET pull == next_combo(explore.gen, explore.pulled)
           warned == IF explore.gen.yields \in {"product", "ValueError"}
                     THEN {explore.gen.domains[k].fname :
                               k \in {i \in DOMAIN explore.gen.domains :
                                          explore.gen.domains[i].warned}}
                     ELSE {}
       IN  explore' =
               IF explore.gen.yields = "ValueError"
               THEN [explore EXCEPT !.pc = "raised", !.diagnosed = @ \cup warned]
               ELSE IF pull.stop
               THEN [explore EXCEPT !.pc = "done", !.diagnosed = @ \cup warned]
               ELSE [explore EXCEPT
                        !.lines = Append(@, assemble_value(explore.spec, pull.combo_map,
                                                           explore.locks)),
                        !.diagnosed = @ \cup warned
                                        \cup assemble_value_warns(explore.spec, pull.combo_map,
                                                                  explore.locks),
                        !.count = @ + 1,
                        !.pulled = @ + 1,
                        !.pc = IF explore.count + 1 >= explore.limit
                               THEN "done" ELSE "loop"]
    /\ UNCHANGED <<command, typed, input, result, origin, emu, call, ret>>

\* list(iterate_field_space(spec["fields"], vary_fields, locks, step)): the
\* generator called as it stands, with names that are no field, with a name
\* given twice, with no name at all, and drained
IterateFieldSpace ==
    \E name \in {<<"A", "D", "D">>, <<"N", "O", "P">>},
       vary_fields \in {<<>>, <<"sf">>, <<"Rd">>, <<"sf", "Rd">>, <<"Rd", "sf">>,
                        <<"Rd", "Rd">>, <<"zz">>, <<"Rd", "zz">>},
       locks \in {<<>>, << <<"Rd", 5>> >>, << <<"zz", 3>> >>},
       step \in {0, 4, 16} :
        LET gen == iterate_field_space(Get(OPCODE_MAP, name).fields, vary_fields, locks, step)
        IN  /\ call = NoCall
            /\ explore = NotExploring
            /\ call' = [fn |-> "iterate_field_space", spec |-> Get(OPCODE_MAP, name),
                        vary_fields |-> vary_fields, locks |-> locks, step |-> step]
            /\ ret' = [raised |-> gen.yields = "ValueError", combos |-> Collect(gen, 0)]
            /\ UNCHANGED <<command, typed, input, result, origin, emu, explore>>

\* the module-level statement OPCODE_MAP = {entry["name"]: entry for group in
\* ISA_GROUPS.values() for entry in group}, run on a table of two groups whose
\* three entries may share a name; a dict comprehension raises nothing
BuildCatalog ==
    \E e1, e2, e3 \in {[d EXCEPT !.name = n] : d \in {D_ADDI, D_SUBI, D_MOVZ},
                                               n \in {"ADDI", "SUBI", "MOVZ"}} :
        /\ call = NoCall
        /\ explore = NotExploring
        /\ call' = [fn |-> "build_catalog",
                    groups |-> << <<"DataProcImm", <<e1, e2>> >>, <<"MoveWide", <<e3>> >> >>]
        /\ ret' = [raised |-> FALSE,
                   OPCODE_MAP |-> DictByName(<<>>, Entries(call'.groups))]
        /\ UNCHANGED <<command, typed, input, result, origin, emu, explore>>

\* the tool is done with the call, or the command has ended
Return ==
    /\ \/ call.fn \in {"colorize_bits", "get_binary_pattern", "main_describe",
                      "build_catalog", "iterate_field_space"}
       \/ call.fn = "main_explore" /\ explore.pc \in {"done", "raised"}
    /\ call' = NoCall
    /\ ret' = NoCall
    /\ explore' = NotExploring
    /\ UNCHANGED <<command, typed, input, result, origin, emu>>

ToolNext ==
    \/ AssembleValue
    \/ ColorizeBits
    \/ GetBinaryPattern
    \/ BuildCatalog
    \/ IterateFieldSpace
    \/ MainDescribe
    \/ MainExplore
    \/ ExploreLoop
    \/ Return

ToolSpec == Init /\ [][ToolNext]_vars

----------------------------------------------------------------------------
(* Reading a state: the word of a result, and what the typed operands mean. *)

Called(c) == command = c
ResultWord == ParseHex16(SubSeq(result.hex, 3, Len(result.hex)))

\* the word a "hex" command decoded, and the decoded forms the assembler's
\* grammar has: an unshifted immediate, registers Xn/Wn or (64-bit) SP
OriginWord == ParseHex16(SubSeq(origin.hex, 3, Len(origin.hex)))
SupportedAddSubImm(w) ==
    /\ IsAddSubImm(w)
    /\ FieldOf(D_ADDI, "shift", w) = 0
    /\ (31 \in w \/ (FieldOf(D_ADDI, "Rd", w) # 31 /\ FieldOf(D_ADDI, "Rn", w) # 31))

Numbered(r) == r.kind \in {"X", "W"}
InRange(r) == Numbered(r) => r.n <= 30
WidthOf(r) == IF r.kind \in {"W", "WZR"} THEN 32 ELSE 64
SfOf(r) == IF WidthOf(r) = 64 THEN 1 ELSE 0

\* an operand the ADD/SUB immediate form takes: Xn/Wn with n in 0..30, or SP
AddSubOperand(r) == (Numbered(r) /\ r.n <= 30) \/ r.kind = "SP"
WellFormedAddSub(f) ==
    AddSubOperand(f.rd) /\ AddSubOperand(f.rn) /\ WidthOf(f.rd) = WidthOf(f.rn)

\* the immediates ADD/SUB (immediate) can hold
LegalAddSubImm(v) == v <= 4095 \/ (v % 4096 = 0 /\ v <= 4095 * 4096)
Imm12Of(v) == IF v <= 4095 THEN v ELSE v \div 4096
ShiftOf(v) == IF v <= 4095 THEN 0 ELSE 1

X0 == Reg("X", 0)
X1 == Reg("X", 1)
Hex_91048C20 == <<"0", "x", "9", "1", "0", "4", "8", "C", "2", "0">>
Hex_91400C20 == <<"0", "x", "9", "1", "4", "0", "0", "C", "2", "0">>
Hex_AA0103E0 == <<"0", "x", "A", "A", "0", "1", "0", "3", "E", "0">>
Hex_910003FF == <<"0", "x", "9", "1", "0", "0", "0", "3", "F", "F">>
LE_208C0491  == <<"2", "0", "8", "C", "0", "4", "9", "1">>

----------------------------------------------------------------------------
(* C1: asm_to_hex on 'ADD|SUB Rd, Rn, #imm' encodes a legal immediate by    *)
(* the add/sub-immediate rule whether it is spelled in decimal or in hex:   *)
(* imm12 = imm, shift = 0 for imm in [0, 4095]; imm12 = imm >> 12,          *)
(* shift = 1 for a multiple of 4096 up to 4095 * 4096.  'ADD X0, X1,        *)
(* #0x123' gives 0x91048C20 (bytes_le 208C0491), '#0x3000' 0x91400C20.      *)
C1_AddSubImmRule ==
    (Called("asm") /\ typed.kind = "addsub" /\ WellFormedAddSub(typed)
        /\ typed.imm.style \in {"#dec", "#hex"} /\ LegalAddSubImm(typed.imm.value))
    => /\ HasHex(result)
       /\ FieldOf(D_ADDI, "imm12", ResultWord) = Imm12Of(typed.imm.value)
       /\ FieldOf(D_ADDI, "shift", ResultWord) = ShiftOf(typed.imm.value)
       /\ (typed = AddSub("ADD", X0, X1, Imm("#hex", 291), FALSE)
            => result.hex = Hex_91048C20 /\ result.bytes_le = LE_208C0491)
       /\ (typed = AddSub("ADD", X0, X1, Imm("#hex", 12288), FALSE)
            => result.hex = Hex_91400C20)

(* C2: asm_to_hex on 'ADD|SUB Rd, Rn, #imm' returns an error result naming  *)
(* 'Invalid ADD immediate' / 'Invalid SUB immediate', and no encoding, for  *)
(* every immediate that is neither in [0, 4095] nor a non-zero multiple of  *)
(* 4096 up to 4095 * 4096, e.g. 'ADD X0, X1, #0x12345'.                     *)
C2_IllegalImmRejected ==
    (Called("asm") /\ typed.kind = "addsub" /\ WellFormedAddSub(typed)
        /\ typed.imm.style \in {"#dec", "dec", "#hex", "hex"}
        /\ ~LegalAddSubImm(typed.imm.value))
    => /\ IsError(result)
       /\ ~HasHex(result)
       /\ result.error = "Invalid " \o typed.mnem \o " immediate"

(* C3: the encoding of an ADD immediate does not depend on the spelling of  *)
(* the immediate: '# 0x123', '0x123', '#291' and '291' all succeed and give *)
(* the hex of '#0x123' (0x91048C20 for 'ADD X0, X1, ...').                  *)
C3_SpellingIndependent ==
    (Called("asm") /\ typed.kind = "addsub" /\ typed.mnem = "ADD" /\ WellFormedAddSub(typed)
        /\ typed.imm.style \in {"#dec", "dec", "#hex", "hex", "# hex"}
        /\ LegalAddSubImm(typed.imm.value))
    => /\ HasHex(result)
       /\ ~IsError(result)
       /\ result = asm_to_hex(TextOf([typed EXCEPT !.imm.style = "#hex"]))
       /\ (typed.rd = X0 /\ typed.rn = X1 /\ typed.imm.value = 291 /\ ~typed.lower
            => result.hex = Hex_91048C20)

(* C4: for all d, m in 0..30, 'MOV Xd, Xm' (and 'MOV Wd, Wm') succeeds and  *)
(* its encoding is the ORR (register) descriptor assembled with Rd = d,     *)
(* Rn = 31, Rm = m, imm6 = 0, shift = 0 and sf = 1 (sf = 0 for W);          *)
(* 'MOV X0, X1' gives 0xAA0103E0.                                           *)
C4_MovRegIsOrr ==
    (Called("asm") /\ typed.kind = "movreg"
        /\ Numbered(typed.rd) /\ typed.rd.n <= 30
        /\ Numbered(typed.rm) /\ typed.rm.n <= 30
        /\ typed.rd.kind = typed.rm.kind)
    => /\ ~IsError(result)
       /\ HasHex(result)
       /\ ResultWord = assemble_value(D_ORR,
             << <<"Rd", typed.rd.n>>, <<"Rn", 31>>, <<"Rm", typed.rm.n>>, <<"imm6", 0>>,
                <<"shift", 0>>, <<"sf", SfOf(typed.rd)>> >>, <<>>)
       /\ (typed.rd = X0 /\ typed.rm = X1 => result.hex = Hex_AA0103E0)

C4_Witness ==
    /\ Called("asm")
    /\ typed = MovReg(Reg("X", 30), Reg("X", 29), FALSE)
    /\ HasHex(result)
    /\ FieldOf(D_ORR, "Rd", ResultWord) = 30
    /\ FieldOf(D_ORR, "Rm", ResultWord) = 29

(* C5: asm_to_hex on 'MOV Rd, #imm' encodes MOVZ with hw = 0 and            *)
(* imm16 = imm exactly when imm is in [0, 65535], and returns an error      *)
(* result for every larger or negative immediate, in hex or in decimal.     *)
C5_MovImmRule ==
    (Called("asm") /\ typed.kind = "movimm" /\ Numbered(typed.rd) /\ typed.rd.n <= 30
        /\ typed.imm.style \in {"#dec", "dec", "#hex", "hex", "#-dec"}
        /\ ~(typed.imm.style = "#-dec" /\ typed.imm.value = 0))
    => IF typed.imm.style # "#-dec" /\ typed.imm.value <= 65535
       THEN /\ HasHex(result)
            /\ ~IsError(result)
            /\ FieldOf(D_MOVZ, "imm16", ResultWord) = typed.imm.value
            /\ FieldOf(D_MOVZ, "hw", ResultWord) = 0
       ELSE IsError(result) /\ ~HasHex(result)

(* C6: when the operand registers of an ADD/SUB-immediate or MOV-register   *)
(* instruction do not share a bit-width (W with X, a W destination with     *)
(* XZR, an X destination with WZR, a W register with SP), asm_to_hex        *)
(* returns an error result, never an encoding.                              *)
C6_WidthMismatchRejected ==
    (Called("asm") /\ typed.kind \in {"addsub", "movreg"}
        /\ InRange(typed.rd)
        /\ LET src == IF typed.kind = "addsub" THEN typed.rn ELSE typed.rm
           IN  InRange(src) /\ WidthOf(typed.rd) # WidthOf(src))
    => IsError(result) /\ ~HasHex(result)

(* C7: a numbered register Xn/Wn is accepted only for n in 0..30: an ADD,   *)
(* SUB or MOV text naming a register with n > 30 gets an error; and in      *)
(* every successful encoding the Rd, Rn and Rm fields hold exactly the      *)
(* register indices written, no bit of an index outside its 5-bit field.    *)
C7_RegisterRange ==
    (Called("asm") /\ typed.kind \in {"addsub", "movimm", "movreg"})
    => LET regs == {typed.rd}
                   \cup (IF typed.kind = "addsub" THEN {typed.rn} ELSE {})
                   \cup (IF typed.kind = "movreg" THEN {typed.rm} ELSE {})
       IN  /\ (\E r \in regs : Numbered(r) /\ r.n > 30) => IsError(result)
           /\ HasHex(result) =>
                /\ Field(ResultWord, 0, 5) = typed.rd.n
                /\ typed.kind = "addsub" => Field(ResultWord, 5, 5) = typed.rn.n
                /\ typed.kind = "movreg" => /\ Field(ResultWord, 16, 5) = typed.rm.n
                                            /\ Field(ResultWord, 5, 5) = 31

(* C8: register parsing is case-insensitive and maps SP, XZR and WZR to     *)
(* (sf = 1, index 31), Xn to (1, n) and Wn to (0, n); so an ADD/SUB         *)
(* immediate with SP as destination and source ('ADD SP, SP, #0x40')        *)
(* encodes without error as a 64-bit operation with Rd = 31 and Rn = 31.    *)
C8_ParseRegister ==
    /\ Called("parse") =>
          result = [sf  |-> IF typed.reg.kind = "W" THEN 0 ELSE 1,
                    idx |-> IF Numbered(typed.reg) THEN typed.reg.n ELSE 31]
    /\ (Called("asm") /\ typed.kind = "addsub" /\ typed.rd = R_SP /\ typed.rn = R_SP
          /\ typed.imm.style \in {"#dec", "dec", "#hex", "hex"}
          /\ LegalAddSubImm(typed.imm.value))
       => /\ ~IsError(result)
          /\ HasHex(result)
          /\ FieldOf(D_ADDI, "sf", ResultWord) = 1
          /\ FieldOf(D_ADDI, "Rd", ResultWord) = 31
          /\ FieldOf(D_ADDI, "Rn", ResultWord) = 31

C8_Witness ==
    \/ /\ Called("parse")
       /\ typed.reg = R_WZR
       /\ input = <<"w", "z", "r">>
       /\ result = [sf |-> 1, idx |-> 31]
    \/ /\ Called("asm")
       /\ typed = AddSub("ADD", R_SP, R_SP, Imm("#hex", 64), FALSE)
       /\ HasHex(result)
       /\ result.hex = Hex_910003FF

(* C9: every encoding asm_to_hex produces is fed back to the decoder before *)
(* it is reported: when the decoder recognises it, 'asm' is the decoder's   *)
(* mnemonic and operand text; when the decoder reports no match, the result *)
(* is an error result, never a success result that still carries 'hex'.     *)
C9_RoundTripOrError ==
    (command \in {"asm", "roundtrip"} /\ HasHex(result))
    => /\ Disasm(ResultWord).ok
       /\ ~IsError(result)
       /\ result.asm = Disasm(ResultWord).mnemonic \o <<" ">> \o Disasm(ResultWord).op_str

(* C10: decoding then re-encoding is the identity on the supported forms:   *)
(* for a word h the decoder renders as an ADD/SUB-immediate instruction     *)
(* (0x91048C20, rendered with a hexadecimal immediate),                     *)
(* asm_to_hex(hex_to_asm(h)['asm'])['hex'] equals h.                        *)
C10_DecodeEncodeIdentity ==
    (Called("roundtrip") /\ SupportedAddSubImm(OriginWord)
        /\ (StartsWith(origin.asm, <<"a", "d", "d", " ">>)
            \/ StartsWith(origin.asm, <<"s", "u", "b", " ">>)))
    => /\ HasHex(result)
       /\ result.hex = origin.hex

----------------------------------------------------------------------------
(* Reading an emulator state: the slots of the register file, and what the  *)
(* operand tokens of an executed instruction denote.                        *)

Slots == {<<"X">> \o DecStr(i) : i \in 0..30} \cup {T_SP}
XSlots == Slots \ {T_SP}
Executing == call.fn = "execute"
OtherSlotsKept(slot) ==
    /\ DOMAIN emu.regs = DOMAIN call.before.regs
    /\ \A k \in DOMAIN emu.regs \ {slot} : emu.regs[k] = call.before.regs[k]

\* the slot a destination token names, for Xn and Wn with n in 0..30
SlotOf(tok) == <<"X">> \o Tail(Upper(tok))
IsX(tok) == Upper(tok) \in XSlots
IsW(tok) == tok # <<>> /\ Upper(tok)[1] = "W" /\ SlotOf(tok) \in XSlots
IsZr(tok) == Upper(tok) \in {T_XZR, T_WZR}

\* the value of a register token in a register file
RegValue(regs, tok) ==
    IF IsZr(tok) THEN {}
    ELSE IF IsW(tok) THEN regs[SlotOf(tok)] \cap (0..31)
    ELSE regs[Upper(tok)]
IsRegTok(tok) == IsX(tok) \/ IsW(tok) \/ IsZr(tok) \/ Upper(tok) = T_SP

\* the immediates written with '#', as a sign and a magnitude
ImmTokens == {<<"#", "1">>, <<"#", "-", "1">>}
ImmMeaning(tok) == [neg |-> tok = <<"#", "-", "1">>, mag |-> {0}]
IsOperand(tok) == IsRegTok(tok) \/ tok \in ImmTokens
OperandValue(regs, tok) ==
    IF tok \in ImmTokens THEN ImmMeaning(tok) ELSE [neg |-> FALSE, mag |-> RegValue(regs, tok)]

\* (a + v) mod 2^64 for ADD, (a - v) mod 2^64 for SUB
ArithResult(m, a, v) ==
    IF (Upper(m) = T_ADD) = v.neg THEN Minus(a, v.mag) ELSE Plus(a, v.mag) \cap (0..63)

ArithCall ==
    /\ Executing
    /\ Upper(call.mnemonic) \in {T_ADD, T_SUB}
    /\ Len(call.parts) = 3
    /\ IsRegTok(call.parts[2])
    /\ IsOperand(call.parts[3])

----------------------------------------------------------------------------
(* C11: after execute of 'ADD Rd, Rn, op' or 'SUB Rd, Rn, op' (op a         *)
(* register or a '#' immediate) with Rd one of X0..X30, Rd holds            *)
(* (value(Rn) + value(op)) mod 2^64, respectively (value(Rn) - value(op))   *)
(* mod 2^64, and the narrative is not empty; with X0 = 2^64 - 1,            *)
(* 'ADD X0, X0, #1' leaves X0 = 0.                                          *)
C11_AddSubWraps ==
    (ArithCall /\ IsX(call.parts[1]))
    => /\ ret.value # <<>>
       /\ emu.regs[Upper(call.parts[1])] =
             ArithResult(call.mnemonic, RegValue(call.before.regs, call.parts[2]),
                         OperandValue(call.before.regs, call.parts[3]))
       /\ (/\ call.mnemonic = T_ADD
           /\ call.parts = << <<"X", "0">>, <<"X", "0">>, <<"#", "1">> >>
           /\ call.before.regs[<<"X", "0">>] = AllOnes64)
          => emu.regs[<<"X", "0">>] = {}

C11_Witness ==
    /\ Executing
    /\ call.mnemonic = T_ADD
    /\ call.parts = << <<"X", "0">>, <<"X", "0">>, <<"#", "1">> >>
    /\ call.before.regs[<<"X", "0">>] = AllOnes64
    /\ emu.regs[<<"X", "0">>] = {}
    /\ ret.value # <<>>

(* C12: executing an instruction whose destination is XZR or WZR leaves     *)
(* every slot X0..X30 and SP unchanged, a direct write to the zero register *)
(* does too, and reading XZR or WZR yields 0 in every reachable state.      *)
C12_ZeroRegister ==
    /\ \A zr \in {T_XZR, T_WZR, Lower(T_XZR), Lower(T_WZR)} : get_reg(emu.regs, zr) = {}
    /\ (Executing /\ call.parts # <<>> /\ IsZr(call.parts[1]))
       => \A k \in Slots : k \in DOMAIN emu.regs /\ emu.regs[k] = call.before.regs[k]
    /\ (call.fn = "set_reg" /\ IsZr(call.name))
       => \A k \in Slots : k \in DOMAIN emu.regs /\ emu.regs[k] = call.before.regs[k]

C12_Witness ==
    /\ Executing
    /\ call.mnemonic = T_ADD
    /\ call.parts = << T_XZR, <<"X", "1">>, <<"#", "1">> >>
    /\ call.before.regs[<<"X", "1">>] = Bits(5)
    /\ call.before.regs[T_SP] = AllOnes64
    /\ ret.value # <<>>
    /\ emu = call.before

(* C13: for n in 0..30, reading Wn returns value(Xn) mod 2^32, and writing  *)
(* a value v to Wn, directly or as the destination of an executed           *)
(* instruction, leaves Xn = v mod 2^32 (upper 32 bits cleared) and changes  *)
(* no other slot.                                                           *)
C13_WView ==
    /\ \A x \in {s \in XSlots : emu.regs[s] # {}} \cup {<<"X", "3", "0">>} :
          /\ get_reg(emu.regs, <<"W">> \o Tail(x)) = emu.regs[x] \cap (0..31)
          /\ get_reg(emu.regs, <<"w">> \o Tail(x)) = emu.regs[x] \cap (0..31)
    /\ (call.fn = "set_reg" /\ IsW(call.name))
       => /\ emu.regs[SlotOf(call.name)] = call.value \cap (0..31)
          /\ OtherSlotsKept(SlotOf(call.name))
    /\ (Executing /\ call.parts # <<>> /\ IsW(call.parts[1]))
       => /\ emu.regs[SlotOf(call.parts[1])] \subseteq 0..31 \/ emu = call.before
          /\ OtherSlotsKept(SlotOf(call.parts[1]))
          /\ ArithCall
             => emu.regs[SlotOf(call.parts[1])] =
                   ArithResult(call.mnemonic, RegValue(call.before.regs, call.parts[2]),
                               OperandValue(call.before.regs, call.parts[3])) \cap (0..31)

C13_Witness ==
    /\ Executing
    /\ call.mnemonic = T_SUB
    /\ call.parts = << <<"w", "1">>, <<"X", "1">>, <<"#", "1">> >>
    /\ call.before.regs[<<"X", "1">>] = AllOnes64
    /\ emu.regs[<<"X", "1">>] = (1..31)

(* C14: execute always returns a narrative, and for an unrecognised         *)
(* mnemonic, an unsupported operand shape (wrong operand count, shifted     *)
(* operand, immediate with a logical mnemonic) or unparsable operand text   *)
(* it returns the empty narrative and leaves every register slot unchanged. *)
C14_EmptyOnFailure ==
    (/\ Executing
     /\ \/ Upper(call.mnemonic) \notin {T_ADD, T_SUB, T_MOV, <<"A", "N", "D">>,
                                         <<"O", "R", "R">>, <<"E", "O", "R">>}
        \/ Len(call.parts) # (IF Upper(call.mnemonic) = T_MOV THEN 2 ELSE 3)
        \/ /\ Upper(call.mnemonic) \in {<<"A", "N", "D">>, <<"O", "R", "R">>, <<"E", "O", "R">>}
           /\ \E i \in DOMAIN call.parts : "#" \in Range(call.parts[i])
        \/ \E i \in DOMAIN call.parts :
              call.parts[i] \in {<<"f", "o", "o">>, <<"#", "z", "z">>})
    => /\ ret.value = <<>>
       /\ emu = call.before
----------------------------------------------------------------------------
(* Claims about the codec, checked under ToolSpec.                           *)

FieldNames(spec) == {spec.fields[k][1] : k \in DOMAIN spec.fields}
Window(spec, fname) ==
    Get(spec.fields, fname)[1] .. (Get(spec.fields, fname)[1] + Get(spec.fields, fname)[2] - 1)
Assembled == call.fn = "assemble_value"
OneVaried == Assembled /\ Len(call.combo_map) = 1 /\ call.locks = <<>>
            /\ call.combo_map[1][1] \in FieldNames(call.spec)

(* C15: for every descriptor of the catalog, every field f of it and every   *)
(* value v, the field f of assemble_value(d, {f: v}, {}) holds v mod         *)
(* 2^width.                                                                  *)
C15_SingleFieldRoundTrip ==
    OneVaried =>
        FieldOf(call.spec, call.combo_map[1][1], ret.val)
            = call.combo_map[1][2] % (2 ^ Get(call.spec.fields, call.combo_map[1][1])[2])

(* C15 witness: a value that does not fit the field (it is reduced) written  *)
(* into a window where base has a one bit.                                   *)
C15_Witness ==
    /\ OneVaried
    /\ call.combo_map[1][2] >= 2 ^ Get(call.spec.fields, call.combo_map[1][1])[2]
    /\ Window(call.spec, call.combo_map[1][1]) \cap call.spec.base # {}
    /\ FieldOf(call.spec, call.combo_map[1][1], ret.val) # call.combo_map[1][2]

RECURSIVE OnlyFields(_, _)
OnlyFields(spec, d) ==
    IF d = <<>> THEN <<>>
    ELSE (IF Has(spec.fields, Head(d)[1]) THEN <<Head(d)>> ELSE <<>>)
         \o OnlyFields(spec, Tail(d))

WrittenBits ==
    UNION {Window(call.spec, f) :
               f \in {g \in FieldNames(call.spec) : Has(call.combo_map, g) \/ Has(call.locks, g)}}

(* C16: assemble_value changes only the windows of the fields it writes:     *)
(* every bit outside the windows of the varied and the locked fields of the  *)
(* descriptor is the bit of base, entries naming no field of the descriptor  *)
(* have no effect, and with an empty map and no locks the result is base.    *)
C16_AssembleFrame ==
    Assembled =>
        /\ ret.val \ WrittenBits = call.spec.base \ WrittenBits
        /\ ret.val = assemble_value(call.spec, OnlyFields(call.spec, call.combo_map),
                                OnlyFields(call.spec, call.locks))
        /\ (call.combo_map = <<>> /\ call.locks = <<>>) => ret.val = call.spec.base

(* C16 witness: nothing varied, a lock naming no field, and a base with a    *)
(* one bit inside a field window: base comes back.                           *)
C16_Witness ==
    /\ Assembled
    /\ call.combo_map = <<>>
    /\ call.locks # <<>> /\ OnlyFields(call.spec, call.locks) = <<>>
    /\ \E f \in FieldNames(call.spec) : Window(call.spec, f) \cap call.spec.base # {}
    /\ ret.val = call.spec.base

PatternBits == SelectSeq(ret.value, LAMBDA c : c # " ")

(* C17: for every descriptor, get_binary_pattern(base, mask) without its     *)
(* separators is 32 characters over 0, 1 and x, bit 31 first: the base bit   *)
(* where the mask bit is one and x elsewhere, so the number of x is the      *)
(* number of zero bits of mask.                                              *)
C17_BinaryPattern ==
    call.fn = "get_binary_pattern" =>
        /\ Len(PatternBits) = 32
        /\ \A k \in 1..32 :
               PatternBits[k] = IF (32 - k) \in call.mask
                                THEN (IF (32 - k) \in call.base THEN "1" ELSE "0")
                                ELSE "x"
        /\ Cardinality({k \in 1..32 : PatternBits[k] = "x"})
               = 32 - Cardinality(call.mask \cap (0..31))

(* C17 witness: a pattern with separators that shows fixed ones, fixed       *)
(* zeros and free bits, and is not the same read backwards.                  *)
C17_Witness ==
    /\ call.fn = "get_binary_pattern"
    /\ Len(ret.value) = 39 /\ ret.value[5] = " "
    /\ {"0", "1", "x"} \subseteq {PatternBits[k] : k \in 1..Len(PatternBits)}
    /\ \E k \in 1..32 : PatternBits[k] # PatternBits[33 - k]

\* what the colouring says of each bit, bit 31 first: red is a violation,
\* yellow a legal variation, no colour a match
RECURSIVE Classes(_)
Classes(pieces) ==
    IF pieces = <<>> THEN <<>>
    ELSE IF Head(pieces) = "\\033[1;31m"
         THEN << <<"VIOLATION", pieces[2]>> >> \o Classes(SubSeq(pieces, 4, Len(pieces)))
    ELSE IF Head(pieces) = "\\033[1;33m"
         THEN << <<"LEGAL_VARIATION", pieces[2]>> >> \o Classes(SubSeq(pieces, 4, Len(pieces)))
    ELSE << <<"MATCH", Head(pieces)>> >> \o Classes(Tail(pieces))

Colorized == call.fn = "colorize_bits"

(* C18: the classification of the bits of an assembled value is three-way    *)
(* and total: a bit is MATCH when it equals the base bit, LEGAL_VARIATION    *)
(* when it differs and the mask bit is 0, VIOLATION when it differs and the  *)
(* mask bit is 1; so varying one field that lies in unmasked bits only gives *)
(* no VIOLATION, and a changed masked bit always gives one.                  *)
C18_BitClassification ==
    Colorized =>
        /\ Len(Classes(ret.value)) = 32
        /\ \A i \in 0..31 :
               /\ Classes(ret.value)[32 - i][2] = (IF i \in call.val THEN "1" ELSE "0")
               /\ Classes(ret.value)[32 - i][1] =
                      (IF (i \in call.val) = (i \in call.base) THEN "MATCH"
                       ELSE IF i \in call.mask THEN "VIOLATION" ELSE "LEGAL_VARIATION")
        /\ (/\ Len(call.combo_map) = 1 /\ call.locks = <<>>
            /\ Has(call.spec.fields, call.combo_map[1][1])
            /\ Window(call.spec, call.combo_map[1][1]) \cap call.mask = {})
               => \A k \in 1..32 : Classes(ret.value)[k][1] # "VIOLATION"
        /\ (\E i \in call.mask : (i \in call.val) # (i \in call.base))
               => \E k \in 1..32 : Classes(ret.value)[k][1] = "VIOLATION"

(* C18 witness: a value with matching bits, a changed unmasked bit and a     *)
(* changed masked bit, coloured accordingly.                                 *)
C18_Witness ==
    /\ Colorized
    /\ \E i \in call.mask : (i \in call.val) # (i \in call.base)
    /\ \E i \in (0..31) \ call.mask : (i \in call.val) # (i \in call.base)
    /\ {"MATCH", "LEGAL_VARIATION", "VIOLATION"}
           \subseteq {Classes(ret.value)[k][1] : k \in 1..Len(Classes(ret.value))}

----------------------------------------------------------------------------
(* Claims about exploration and aliases, checked under ToolSpec.             *)

Exploring == call.fn = "main_explore"

(* C19: for any descriptor, vary-set, lock set, step and any limit >= 0, an  *)
(* exploration yields at most limit encodings and pulls no further value     *)
(* from the enumerator once limit values have been yielded.                  *)
C19_AtMostLimit ==
    (Exploring /\ call.limit >= 0) =>
        /\ explore.count <= call.limit
        /\ Len(explore.lines) <= call.limit
        /\ explore.count >= call.limit => explore.pc = "done"

Resolved == call.fn \in {"main_describe", "main_explore"}
AliasLocks == Get(INSTRUCTION_ALIASES, Upper(call.opcode)).locked_fields

(* C20: a mnemonic with an alias entry is replaced by the alias's base       *)
(* mnemonic and each alias lock is added only where the caller's locks do    *)
(* not name the field (CMP with Rd = 5 gives SUBS with Rd = 5, CMP with no   *)
(* lock gives SUBS with Rd = 31); a mnemonic with no alias entry and its     *)
(* locks stay as given; the describe path and the explore path resolve       *)
(* alike.                                                                    *)
C20_AliasResolution ==
    Resolved =>
        /\ describe_alias(Upper(call.opcode), call.given)
               = explore_alias(Upper(call.opcode), call.given)
        /\ IF Has(INSTRUCTION_ALIASES, Upper(call.opcode))
           THEN /\ call.name = Get(INSTRUCTION_ALIASES, Upper(call.opcode)).base_op
                /\ \A k \in DOMAIN call.given :
                       /\ Has(call.locks, call.given[k][1])
                       /\ Get(call.locks, call.given[k][1]) = call.given[k][2]
                /\ \A k \in DOMAIN AliasLocks :
                       /\ Has(call.locks, AliasLocks[k][1])
                       /\ ~Has(call.given, AliasLocks[k][1])
                              => Get(call.locks, AliasLocks[k][1]) = AliasLocks[k][2]
                /\ \A k \in DOMAIN call.locks :
                       Has(call.given, call.locks[k][1]) \/ Has(AliasLocks, call.locks[k][1])
           ELSE /\ call.name = Upper(call.opcode)
                /\ call.locks = call.given
        /\ (Upper(call.opcode) = <<"C", "M", "P">> /\ call.given = << <<"Rd", 5>> >>)
               => call.name = <<"S", "U", "B", "S">> /\ call.locks = << <<"Rd", 5>> >>
        /\ (Upper(call.opcode) = <<"C", "M", "P">> /\ call.given = <<>>)
               => call.name = <<"S", "U", "B", "S">> /\ call.locks = << <<"Rd", 31>> >>
        /\ (Exploring /\ Has(OPCODE_MAP, call.name))
               => explore.opname = call.name /\ explore.locks = call.locks

(* C20 witness: cmp explored with the lock Rd=5: SUBS is explored and the    *)
(* encoding printed has Rd = 5, not 31.                                      *)
C20_Witness ==
    /\ Exploring
    /\ Upper(call.opcode) = <<"C", "M", "P">>
    /\ call.given = << <<"Rd", 5>> >>
    /\ explore.opname = <<"S", "U", "B", "S">>
    /\ explore.count > 0
    /\ FieldOf(explore.spec, "Rd", explore.lines[1]) = 5

----------------------------------------------------------------------------
(* Claims about the catalog, the enumerator and the register file.           *)

(* C21: building the catalog from a descriptor list in which two descriptors *)
(* share a mnemonic fails at construction time; it never gives a catalog in  *)
(* which one of the two has replaced the other.                              *)
C21_DuplicateRejected ==
    (/\ call.fn = "build_catalog"
     /\ \E i, j \in DOMAIN Entries(call.groups) :
            i # j /\ Entries(call.groups)[i].name = Entries(call.groups)[j].name)
        => /\ ret.raised
           /\ Len(ret.OPCODE_MAP) = Len(Entries(call.groups))

Enumerating == Exploring /\ explore.pc \in {"loop", "done", "raised"}
               /\ "gen" \in DOMAIN explore
               /\ explore.gen.yields \in {"product", "ValueError"}
DomainValues(d) == {d.first + k * d.stride : k \in 0..(d.size - 1)}
FieldWidth(spec, fname) == Get(spec.fields, fname)[2]
ClaimedStep(step, width) == IF step < 2 ^ width THEN step ELSE 2 ^ width
UnlockedDomainsAsClaimed ==
    \A k \in DOMAIN explore.gen.domains :
        LET d == explore.gen.domains[k]
            width == FieldWidth(explore.spec, d.fname)
        IN  ~Has(explore.locks, d.fname) =>
                /\ ~d.raises
                /\ DomainValues(d) # {}
                /\ width <= 2 => DomainValues(d) = 0..(2 ^ width - 1)
                /\ (width > 2 /\ call.step >= 1) =>
                       DomainValues(d)
                           = {v \in 0..(2 ^ width - 1) : v % ClaimedStep(call.step, width) = 0}

(* C22: for every unlocked field being varied and every requested step, the  *)
(* enumerator's domain for the field is non-empty: every integer in          *)
(* [0, 2^width) when the width is at most 2, otherwise 0, s, 2s, ... below   *)
(* 2^width with s = min(step, 2^width).                                      *)
C22_DomainsNonEmpty ==
    Enumerating => UnlockedDomainsAsClaimed

ExploringKnown == Exploring /\ Has(OPCODE_MAP, call.name)
LockedFields == {f \in FieldNames(explore.spec) : Has(explore.locks, f)}
LockWins(f) ==
    \A i \in DOMAIN explore.lines :
        FieldOf(explore.spec, f, explore.lines[i])
            = Get(explore.locks, f) % (2 ^ FieldWidth(explore.spec, f))
LockFits(f) == Get(explore.locks, f) \in 0..(2 ^ FieldWidth(explore.spec, f) - 1)

(* C23: locks always win: for every field of the descriptor that carries a   *)
(* lock, varied or not, every encoding an exploration yields has the field   *)
(* equal to the locked value reduced into [0, 2^width), and a diagnostic is  *)
(* emitted whenever the raw locked value does not fit the width.             *)
C23_LocksWin ==
    ExploringKnown =>
        \A f \in LockedFields :
            /\ LockWins(f)
            /\ (explore.count > 0 /\ ~LockFits(f)) => f \in explore.diagnosed

\* a direct call of the generator, and the given names that are fields
Enumerated == call.fn = "iterate_field_space"

ValidVary == SelectSeq(call.vary_fields, LAMBDA f : f \in FieldNames(call.spec))

KeysOf(combo_map) == {combo_map[i][1] : i \in DOMAIN combo_map}

(* C24: when the vary-set given to the enumerator is not empty but names no  *)
(* field of the descriptor, nothing at all is yielded, with or without       *)
(* locks, which is not the one empty map that stands for the base encoding;  *)
(* names that are no field are dropped and the valid names that remain are   *)
(* enumerated as if they had been given alone.                               *)
C24_InvalidVaryYieldsNothing ==
    (Enumerated /\ call.vary_fields # <<>>) =>
        /\ ValidVary = <<>> => ret = [raised |-> FALSE, combos |-> <<>>]
        /\ ret.combos # << <<>> >>
        /\ ValidVary # <<>> =>
               ret.combos = Collect(iterate_field_space(call.spec.fields, ValidVary,
                                                        call.locks, call.step), 0)
        /\ \A i \in DOMAIN ret.combos :
               KeysOf(ret.combos[i]) = {ValidVary[k] : k \in DOMAIN ValidVary}
        /\ (ValidVary # <<>> /\ call.step > 0) => ret.combos # <<>>

\* ['zz'] with the lock Rd=5 has yielded nothing on ADD, whose base with the
\* lock applied would be 0x0B000005
C24_Witness ==
    /\ Enumerated
    /\ call.vary_fields = <<"zz">> /\ call.locks = << <<"Rd", 5>> >>
    /\ call.spec.fields # <<>> /\ ret.combos = <<>>

\* the one value a call with an empty vary-set stands for: its single map
\* assembled with the locks of the call
OnlyValue == assemble_value(call.spec, ret.combos[1], call.locks)

Declared(spec, names) ==
    SelectSeq([k \in DOMAIN spec.fields |-> spec.fields[k][1]], LAMBDA f : f \in names)

AsMaps(combos) == [i \in DOMAIN combos |-> {combos[i][k] : k \in DOMAIN combos[i]}]

(* C26: the enumerator yields each point of the product of the domains       *)
(* exactly once, in the order of the fields as the descriptor declares them  *)
(* (the last declared varied field changing fastest), whatever the order in  *)
(* which the caller lists the vary-set.                                      *)
C26_DeclaredOrder ==
    (Enumerated /\ ~ret.raised /\ ValidVary # <<>>) =>
        /\ AsMaps(ret.combos)
               = AsMaps(Collect(iterate_field_space(
                                    call.spec.fields,
                                    Declared(call.spec, KeysOf([i \in DOMAIN ValidVary |->
                                                                   <<ValidVary[i], 0>>])),
                                    call.locks, call.step), 0))
        /\ \A i, j \in DOMAIN ret.combos :
               i # j => AsMaps(ret.combos)[i] # AsMaps(ret.combos)[j]

(* C27: exploration varies a field only where the mask has zero bits: with   *)
(* no locks, every encoding printed when a descriptor of the catalog is      *)
(* explored (all its fields or a part of them varied) agrees with base on    *)
(* every masked bit, so no bit of it is coloured as a violation.             *)
C27_MaskedBitsKept ==
    (ExploringKnown /\ explore.locks = <<>>) =>
        \A i \in DOMAIN explore.lines :
            /\ explore.lines[i] \cap explore.spec.mask
                   = explore.spec.base \cap explore.spec.mask
            /\ \A k \in 1..32 :
                   Classes(colorize_bits(explore.spec.base, explore.spec.mask,
                                         explore.lines[i]))[k][1] # "VIOLATION"

(* C28: after any sequence of set_reg and execute calls the register file    *)
(* has exactly the 32 slots X0..X30 and SP (none added, none removed), every *)
(* slot holds a value in [0, 2^64), and the flags keep their initial value.  *)
C28_RegisterFileShape ==
    /\ DOMAIN emu.regs = Slots
    /\ \A k \in DOMAIN emu.regs : emu.regs[k] \subseteq 0..63
    /\ emu.flags = Emulator_init.flags

\* the data-model invariants of one descriptor and of the alias table
WindowsInRange(spec) ==
    \A k \in DOMAIN spec.fields :
        /\ 0 <= spec.fields[k][2][1]
        /\ 1 <= spec.fields[k][2][2]
        /\ spec.fields[k][2][1] + spec.fields[k][2][2] <= 32

WindowsDisjoint(spec) ==
    \A j, k \in DOMAIN spec.fields :
        j # k => /\ spec.fields[j][1] # spec.fields[k][1]
                 /\ Window(spec, spec.fields[j][1]) \cap Window(spec, spec.fields[k][1]) = {}

AliasSound(alias) ==
    /\ Has(OPCODE_MAP, alias.base_op)
    /\ \A k \in DOMAIN alias.locked_fields :
           /\ Has(Get(OPCODE_MAP, alias.base_op).fields, alias.locked_fields[k][1])
           /\ alias.locked_fields[k][2]
                  \in 0..(2 ^ FieldWidth(Get(OPCODE_MAP, alias.base_op),
                                         alias.locked_fields[k][1]) - 1)

CatalogSound ==
    /\ \A i \in DOMAIN OPCODE_MAP :
           WindowsInRange(OPCODE_MAP[i][2]) /\ WindowsDisjoint(OPCODE_MAP[i][2])
    /\ \A a \in DOMAIN INSTRUCTION_ALIASES : AliasSound(INSTRUCTION_ALIASES[a][2])

(* C29: every descriptor of the catalog satisfies the data-model invariants: *)
(* each field window has 0 <= offset and offset + width <= 32, the windows   *)
(* of two fields of one descriptor are disjoint, and every alias names a     *)
(* mnemonic of the catalog and locks only fields of that descriptor, to      *)
(* values that fit their width; so a resolved alias always finds its         *)
(* descriptor, and its own locks are written without clamping.               *)
C29_CatalogInvariants ==
    /\ CatalogSound
    /\ (call.fn \in {"main_describe", "main_explore"}
        /\ Has(INSTRUCTION_ALIASES, Upper(call.opcode))) =>
           /\ Has(OPCODE_MAP, call.name)
           /\ \A k \in DOMAIN call.locks :
                  (~Has(call.given, call.locks[k][1])) =>
                      /\ call.locks[k][1] \in FieldNames(Get(OPCODE_MAP, call.name))
                      /\ call.locks[k][2]
                             \in 0..(2 ^ FieldWidth(Get(OPCODE_MAP, call.name),
                                                    call.locks[k][1]) - 1)

\* tst has been resolved to ANDS, a descriptor of the catalog with several
\* fields, and its lock Rd = 31 has been written into the first encoding
C29_Witness ==
    /\ Exploring /\ call.opcode = <<"t", "s", "t">> /\ call.given = <<>>
    /\ call.name = <<"A", "N", "D", "S">> /\ Has(OPCODE_MAP, call.name)
    /\ Len(explore.spec.fields) > 1
    /\ explore.lines # <<>> /\ FieldOf(explore.spec, "Rd", explore.lines[1]) = 31
    /\ explore.diagnosed = {}

\* the fields of a descriptor whose window has no masked bit
FreeFields(spec) == {f \in FieldNames(spec) : Window(spec, f) \cap spec.mask = {}}

BaseIsZeroed(spec) ==
    /\ \A f \in FreeFields(spec) : spec.base \cap Window(spec, f) = {}
    /\ spec.base \subseteq spec.mask

\* the other descriptors of the catalog with the (base, mask) pair of spec
SamePair(spec) ==
    {OPCODE_MAP[i][1] : i \in {k \in DOMAIN OPCODE_MAP :
                                   /\ OPCODE_MAP[k][1] # spec.name
                                   /\ OPCODE_MAP[k][2].base = spec.base
                                   /\ OPCODE_MAP[k][2].mask = spec.mask}}

(* C30: for every descriptor of the catalog, base is the encoding with all   *)
(* variable fields at zero: every field whose window lies in unmasked bits   *)
(* is 0 in base, base has no set bit at an unmasked position, and no two     *)
(* descriptors have the same (base, mask) pair; checked on each descriptor   *)
(* whose pattern is printed.                                                 *)
C30_BaseZeroedAndUnique ==
    call.fn = "get_binary_pattern" =>
        /\ BaseIsZeroed(call.spec)
        /\ SamePair(call.spec) = {}

====
